---- MODULE Spec2Model ----
(***************************************************************************)
(* Verification model of the IntervueAi confidence-scoring pipeline.       *)
(*                                                                         *)
(* Python floats are modelled as exact rationals <<n, d>> (d > 0, lowest   *)
(* terms).  A dict key that may be missing, and a dict that may be empty   *)
(* or missing, is a sequence of length 0 (missing) or 1 (present), so      *)
(* dict.get(key, default) is Get(field, default).                          *)
(***************************************************************************)
EXTENDS Integers, Sequences, FiniteSets, TLC

\* ------------------------------------------------------------------ bounds
\* Longest answer list handed to the scorers.
MaxResponses == 2
\* Scores handed to _interpret_score are k / ScoreDen for k in 0..100*ScoreDen.
ScoreDen == 2
\* Largest filler-word count and word count tried on the filler scorer
\* (besides the 100-word transcript of the spec's scenario B).
MaxFillers == 8
MaxWords == 10

\* ------------------------------------------------------- exact arithmetic
RECURSIVE Gcd(_, _)
Gcd(a, b) == IF b = 0 THEN a ELSE Gcd(b, a % b)

Abs(x) == IF x < 0 THEN -x ELSE x

\* The rational n/d in lowest terms with a positive denominator.
Rat(n, d) ==
    LET g == Gcd(Abs(n), Abs(d))
        s == IF d < 0 THEN -1 ELSE 1
    IN  <<(s * n) \div g, (s * d) \div g>>

R(i) == <<i, 1>>
RAdd(a, b) == Rat(a[1] * b[2] + b[1] * a[2], a[2] * b[2])
RSub(a, b) == Rat(a[1] * b[2] - b[1] * a[2], a[2] * b[2])
RMul(a, b) == Rat(a[1] * b[1], a[2] * b[2])
RDiv(a, b) == Rat(a[1] * b[2], a[2] * b[1])
RLe(a, b) == a[1] * b[2] <= b[1] * a[2]
RLt(a, b) == a[1] * b[2] < b[1] * a[2]
RGe(a, b) == RLe(b, a)
RMax(a, b) == IF RLt(a, b) THEN b ELSE a
RMin(a, b) == IF RLt(b, a) THEN b ELSE a

RECURSIVE RSum(_)
RSum(s) == IF s = <<>> THEN R(0) ELSE RAdd(s[1], RSum(Tail(s)))

\* np.mean / sum(xs) / len(xs) of a non-empty list.
RMean(s) == RDiv(RSum(s), R(Len(s)))

\* ----------------------------------------------------------- dict access
None == <<>>
Some(v) == <<v>>
\* dict.get(key, default)
Get(field, default) == IF field = None THEN default ELSE field[1]
\* Python truthiness of a dict value that may be missing or empty.
Truthy(field) == field # None

\* ------------------------------------------------------- response inputs
\* filler_words is a list of the filler tokens found; only its length is read.
Fillers(n) == [i \in 1..n |-> "um"]

VoiceMetrics(stability, clarity) ==
    Some([stability_score |-> stability, clarity_score |-> clarity])

Metrics(eye, conf, cons, nerv, stress) ==
    Some([eye_contact_percentage |-> eye, confidence_score |-> conf,
          emotion_consistency |-> cons, nervousness_score |-> nerv,
          stress_score |-> stress])

EmotionAnalysis(metrics) == Some([metrics |-> metrics])

Transcript(fillers, words) ==
    Some([filler_words |-> Some(Fillers(fillers)),
          filler_word_count |-> Some(fillers),
          word_count |-> Some(words)])

Response(voice, emotion, transcript) ==
    [voice_metrics |-> voice, emotion_analysis |-> emotion, transcript |-> transcript]

\* The two answers of the spec's scenario C, V1/E1/T1 and V2/E2/T2, each also
\* with modalities missing.
V1 == VoiceMetrics(Some(80), Some(80))
V2 == VoiceMetrics(Some(60), Some(60))
E1 == EmotionAnalysis(Metrics(Some(70), Some(90), Some(0), Some(0), Some(0)))
E2 == EmotionAnalysis(Metrics(Some(50), Some(60), Some(50), Some(40), Some(40)))
T1 == Transcript(0, 100)
T2 == Transcript(4, 100)

CoreResponses ==
    { Response(v, e, t) : v \in {None, V1}, e \in {None, E1}, t \in {None, T1} }
    \cup { Response(V2, E2, T2), Response(None, E2, T2), Response(V2, None, T2),
           Response(V2, E2, None) }

\* Answers with metric values that are missing, negative or above 100, and
\* transcripts with no words, many fillers or a fractional filler rate.
EdgeResponses ==
    { Response(VoiceMetrics(Some(150), Some(50)),
               EmotionAnalysis(Metrics(Some(130), Some(100), Some(100), None, None)),
               Transcript(0, 0)),
      Response(VoiceMetrics(Some(-50), Some(20)),
               EmotionAnalysis(Metrics(Some(-10), Some(10), Some(0), Some(90), Some(90))),
               Transcript(30, 100)),
      Response(VoiceMetrics(None, Some(90)),
               EmotionAnalysis(None),
               Transcript(1, 30)),
      Response(VoiceMetrics(Some(100), Some(100)),
               EmotionAnalysis(Metrics(Some(100), Some(100), None, Some(-40), None)),
               Some([filler_words |-> None, filler_word_count |-> None,
                     word_count |-> Some(50)])),
      Response(VoiceMetrics(Some(30), None),
               EmotionAnalysis(Metrics(Some(20), Some(40), Some(10), Some(30), Some(10))),
               Transcript(8, 100)),
      Response(None,
               EmotionAnalysis(Metrics(None, Some(55), None, None, Some(200))),
               Some([filler_words |-> Some(Fillers(2)), filler_word_count |-> Some(2),
                     word_count |-> None])) }

ResponseOptions == CoreResponses \cup EdgeResponses

\* ------------------------------------------- ConfidenceScorer (scoring engine)
\* self.weights as set by ConfidenceScorer.__init__
InitWeights_simplified ==
    [voice_stability |-> Rat(40, 100), eye_contact |-> Rat(35, 100),
     emotion_consistency |-> Rat(20, 100), filler_word_frequency |-> Rat(15, 100)]

InitWeights ==
    [voice_stability |-> Rat(40, 100), eye_contact |-> Rat(25, 100),
     emotion_consistency |-> Rat(20, 100), filler_word_frequency |-> Rat(15, 100)]

calculate_voice_stability_score_unclamped(voice_metrics) ==
    IF ~Truthy(voice_metrics) THEN R(0)
    ELSE LET stability_score == R(Get(voice_metrics[1].stability_score, 0))
             clarity_score == R(Get(voice_metrics[1].clarity_score, 0))
         IN  RAdd(RMul(stability_score, Rat(7, 10)), RMul(clarity_score, Rat(3, 10)))

calculate_voice_stability_score(voice_metrics) ==
    IF ~Truthy(voice_metrics) THEN R(0)
    ELSE LET stability_score == R(Get(voice_metrics[1].stability_score, 0))
             clarity_score == R(Get(voice_metrics[1].clarity_score, 0))
             voice_score == RAdd(RMul(stability_score, Rat(7, 10)),
                                 RMul(clarity_score, Rat(3, 10)))
         IN  RMin(R(100), RMax(R(0), voice_score))

\* emotion_analysis.get("metrics", {}) followed by metrics.get(key, 0)
MetricOf(emotion_analysis, key) ==
    LET metrics == emotion_analysis[1].metrics
    IN  IF metrics = None THEN 0 ELSE Get(metrics[1][key], 0)

calculate_eye_contact_score(emotion_analysis) ==
    IF ~Truthy(emotion_analysis) THEN R(0)
    ELSE LET eye_contact_percentage == R(MetricOf(emotion_analysis, "eye_contact_percentage"))
         IN  RMin(R(100), RMax(R(0), eye_contact_percentage))

calculate_emotion_consistency_score(emotion_analysis) ==
    IF ~Truthy(emotion_analysis) THEN R(0)
    ELSE LET confidence_score == R(MetricOf(emotion_analysis, "confidence_score"))
             emotion_consistency == R(MetricOf(emotion_analysis, "emotion_consistency"))
             nervousness_score == R(MetricOf(emotion_analysis, "nervousness_score"))
             stress_score == R(MetricOf(emotion_analysis, "stress_score"))
             positive_emotions == RAdd(confidence_score, emotion_consistency)
             negative_emotions == RAdd(nervousness_score, stress_score)
         IN  RMax(R(0), RMin(R(100),
                 RSub(positive_emotions, RMul(negative_emotions, Rat(1, 2)))))

calculate_filler_word_score_unfloored(transcript_data) ==
    IF ~Truthy(transcript_data) THEN R(100)
    ELSE LET filler_words == Get(transcript_data[1].filler_words, <<>>)
             total_words == Get(transcript_data[1].word_count, 0)
         IN  IF total_words = 0 THEN R(100)
             ELSE RSub(R(100), RMul(RMul(Rat(Len(filler_words), total_words), R(100)), R(5)))

calculate_filler_word_score(transcript_data) ==
    IF ~Truthy(transcript_data) THEN R(100)
    ELSE LET filler_words == Get(transcript_data[1].filler_words, <<>>)
             total_words == Get(transcript_data[1].word_count, 0)
         IN  IF total_words = 0 THEN R(100)
             ELSE LET filler_percentage ==
                          RMul(Rat(Len(filler_words), total_words), R(100))
                  IN  RMax(R(0), RSub(R(100), RMul(filler_percentage, R(5))))

get_score_range_strict(score) ==
    IF RLt(R(85), score) THEN "85-100"
    ELSE IF RLt(R(70), score) THEN "70-84"
    ELSE IF RLt(R(55), score) THEN "55-69"
    ELSE IF RLt(R(40), score) THEN "40-54"
    ELSE "0-39"

get_score_range(score) ==
    IF RGe(score, R(85)) THEN "85-100"
    ELSE IF RGe(score, R(70)) THEN "70-84"
    ELSE IF RGe(score, R(55)) THEN "55-69"
    ELSE IF RGe(score, R(40)) THEN "40-54"
    ELSE "0-39"

interpret_score(score) ==
    LET level == IF RGe(score, R(85)) THEN "Excellent"
                 ELSE IF RGe(score, R(70)) THEN "Good"
                 ELSE IF RGe(score, R(55)) THEN "Average"
                 ELSE IF RGe(score, R(40)) THEN "Below Average"
                 ELSE "Poor"
        description ==
                 IF RGe(score, R(85)) THEN "Outstanding confidence and communication skills"
                 ELSE IF RGe(score, R(70)) THEN "Strong confidence with minor areas for improvement"
                 ELSE IF RGe(score, R(55)) THEN "Moderate confidence, several areas for development"
                 ELSE IF RGe(score, R(40)) THEN "Low confidence, significant improvement needed"
                 ELSE "Very low confidence, major development required"
    IN  [level |-> level, description |-> description, score_range |-> get_score_range(score)]

Component(score, weight) ==
    [score |-> score, weight |-> weight, weighted_contribution |-> RMul(score, weight)]

empty_score_result_simplified ==
    [overall_score |-> R(0),
     component_scores |->
        [voice_stability |-> Component(R(0), Rat(40, 100)),
         eye_contact |-> Component(R(0), Rat(35, 100)),
         emotion_consistency |-> Component(R(0), Rat(20, 100)),
         filler_word_frequency |-> Component(R(0), Rat(15, 100))],
     response_count |-> 0,
     score_interpretation |->
        [level |-> "No Data", description |-> "No responses to analyze", score_range |-> "0"]]

empty_score_result ==
    [overall_score |-> R(0),
     component_scores |->
        [voice_stability |->
            [score |-> R(0), weight |-> Rat(40, 100), weighted_contribution |-> R(0)],
         eye_contact |->
            [score |-> R(0), weight |-> Rat(25, 100), weighted_contribution |-> R(0)],
         emotion_consistency |->
            [score |-> R(0), weight |-> Rat(20, 100), weighted_contribution |-> R(0)],
         filler_word_frequency |->
            [score |-> R(0), weight |-> Rat(15, 100), weighted_contribution |-> R(0)]],
     response_count |-> 0,
     score_interpretation |->
        [level |-> "No Data", description |-> "No responses to analyze", score_range |-> "0"]]

\* The per-answer component scores collected by calculate_score's loop.
voice_scores(responses) ==
    [i \in 1..Len(responses) |-> calculate_voice_stability_score(responses[i].voice_metrics)]
eye_contact_scores(responses) ==
    [i \in 1..Len(responses) |-> calculate_eye_contact_score(responses[i].emotion_analysis)]
emotion_scores(responses) ==
    [i \in 1..Len(responses) |->
        calculate_emotion_consistency_score(responses[i].emotion_analysis)]
filler_word_scores(responses) ==
    [i \in 1..Len(responses) |-> calculate_filler_word_score(responses[i].transcript)]

\* np.mean(xs) if xs else 0
MeanOrZero(xs) == IF xs = <<>> THEN R(0) ELSE RMean(xs)

calculate_score(w, responses) ==
    IF responses = <<>> THEN empty_score_result
    ELSE LET avg_voice_stability == MeanOrZero(voice_scores(responses))
             avg_eye_contact == MeanOrZero(eye_contact_scores(responses))
             avg_emotion_consistency == MeanOrZero(emotion_scores(responses))
             avg_filler_word == MeanOrZero(filler_word_scores(responses))
             overall_score ==
                 RAdd(RAdd(RAdd(RMul(avg_voice_stability, w.voice_stability),
                                RMul(avg_eye_contact, w.eye_contact)),
                           RMul(avg_emotion_consistency, w.emotion_consistency)),
                      RMul(avg_filler_word, w.filler_word_frequency))
         IN  [overall_score |-> overall_score,
              component_scores |->
                 [voice_stability |->
                     Component(avg_voice_stability, w.voice_stability),
                  eye_contact |->
                     Component(avg_eye_contact, w.eye_contact),
                  emotion_consistency |->
                     Component(avg_emotion_consistency, w.emotion_consistency),
                  filler_word_frequency |->
                     Component(avg_filler_word, w.filler_word_frequency)],
              response_count |-> Len(responses),
              score_interpretation |-> interpret_score(overall_score)]


\* --------------------------- calculate_real_confidence_score (backend/main.py)
real_voice_scores(responses) ==
    LET sel == SelectSeq(responses, LAMBDA r : Truthy(r.voice_metrics))
    IN  [i \in 1..Len(sel) |-> R(Get(sel[i].voice_metrics[1].stability_score, 0))]

real_eye_contact_scores(responses) ==
    LET sel == SelectSeq(responses,
                   LAMBDA r : Truthy(r.emotion_analysis)
                              /\ Truthy(r.emotion_analysis[1].metrics))
    IN  [i \in 1..Len(sel) |-> R(MetricOf(sel[i].emotion_analysis, "eye_contact_percentage"))]

\* the speech_score of one truthy transcript
real_speech_score(transcript) ==
    LET word_count == Get(transcript[1].word_count, 0)
        filler_count == Get(transcript[1].filler_word_count, 0)
    IN  IF word_count > 0
        THEN LET filler_percentage == RMul(Rat(filler_count, word_count), R(100))
             IN  RMax(R(0), RSub(R(100), RMul(filler_percentage, R(5))))
        ELSE R(0)

real_speech_scores(responses) ==
    LET sel == SelectSeq(responses, LAMBDA r : Truthy(r.transcript))
    IN  [i \in 1..Len(sel) |-> real_speech_score(sel[i].transcript)]

calculate_real_confidence_score(responses) ==
    IF responses = <<>>
    THEN [overall_score |-> R(0), component_scores |-> <<>>]
    ELSE LET avg_voice == MeanOrZero(real_voice_scores(responses))
             avg_eye_contact == MeanOrZero(real_eye_contact_scores(responses))
             avg_speech == MeanOrZero(real_speech_scores(responses))
             overall_score ==
                 RAdd(RAdd(RMul(avg_voice, Rat(40, 100)),
                           RMul(avg_eye_contact, Rat(35, 100))),
                      RMul(avg_speech, Rat(25, 100)))
         IN  [overall_score |-> overall_score,
              component_scores |->
                 [voice_stability |-> [score |-> avg_voice, weight |-> Rat(40, 100)],
                  eye_contact |-> [score |-> avg_eye_contact, weight |-> Rat(35, 100)],
                  speech_quality |-> [score |-> avg_speech, weight |-> Rat(25, 100)]],
              response_count |-> Len(responses)]

\* ------------------------------------------------- voice stability analyzers
\* 100 - min(100, std / mean * 100) if mean > 0 else 0
StabilityOf(mean, std) ==
    IF RLt(R(0), mean)
    THEN RSub(R(100), RMin(R(100), RMul(RDiv(std, mean), R(100))))
    ELSE R(0)

ZeroSpeechMetrics ==
    [pitch_mean |-> R(0), pitch_std |-> R(0), energy_mean |-> R(0), energy_std |-> R(0),
     stability_score |-> R(0)]

\* RealAudioAnalyzer._analyze_speech_patterns, given the statistics of the
\* extracted pitch values and RMS energies.
analyze_speech_patterns(speech_percentage, pitch, energy, raises) ==
    IF raises THEN ZeroSpeechMetrics
    ELSE IF RLt(speech_percentage, R(1)) THEN ZeroSpeechMetrics
    ELSE LET pitch_stability == StabilityOf(pitch[1], pitch[2])
             energy_stability == StabilityOf(energy[1], energy[2])
             stability_score == RDiv(RAdd(pitch_stability, energy_stability), R(2))
         IN  [pitch_mean |-> pitch[1], pitch_std |-> pitch[2],
              energy_mean |-> energy[1], energy_std |-> energy[2],
              stability_score |-> stability_score]

\* VoiceAnalyzer._calculate_stability_score over the pitch_stability and
\* energy_stability of _analyze_pitch and _analyze_energy.
voice_analyzer_stability(pitch, energy) ==
    LET pitch_stability == StabilityOf(pitch[1], pitch[2])
        energy_stability == StabilityOf(energy[1], energy[2])
        stability_score ==
            RAdd(RMul(pitch_stability, Rat(7, 10)), RMul(energy_stability, Rat(3, 10)))
    IN  [pitch_mean |-> pitch[1], pitch_std |-> pitch[2],
         energy_mean |-> energy[1], energy_std |-> energy[2],
         stability_score |-> stability_score]

\* (mean, std) of the pitch values kept: no values, or values inside (50, 500).
PitchStats ==
    { <<R(0), R(0)>> }
    \cup { <<m, sd>> : m \in {R(100), R(200)}, sd \in {R(0), R(10), R(50)} }

\* (mean, std) of the RMS energies: all zero, or some energy.
EnergyStats ==
    { <<R(0), R(0)>> }
    \cup { <<m, sd>> : m \in {Rat(1, 100), Rat(1, 10)},
                       sd \in {R(0), Rat(1, 100), Rat(1, 5)} }

SpeechPercentages == {R(0), R(50)}

\* ------------------------------------------------------- RealAudioAnalyzer
\* __init__: self.sample_rate, self.frame_duration (ms)
sample_rate == 16000
frame_duration == 30

\* int(self.sample_rate * self.frame_duration / 1000)
frame_size == (sample_rate * frame_duration) \div 1000

\* the result of _detect_voice_activity when it catches an exception
FailedVoiceActivity ==
    [total_frames |-> 0, speech_frames |-> 0,
     speech_percentage |-> R(0), silence_percentage |-> R(100)]

\* _detect_voice_activity with every frame padded
detect_voice_activity_overpadded(samples, loud, raises) ==
    IF raises THEN FailedVoiceActivity
    ELSE LET padding == frame_size - (samples % frame_size)
             total_frames == (samples + padding) \div frame_size
             speech_frames == Cardinality({ i \in 1..total_frames : i \in loud })
             speech_percentage ==
                 IF total_frames > 0
                 THEN RMul(Rat(speech_frames, total_frames), R(100))
                 ELSE R(0)
         IN  [total_frames |-> total_frames, speech_frames |-> speech_frames,
              speech_percentage |-> speech_percentage,
              silence_percentage |-> RSub(R(100), speech_percentage)]

\* RealAudioAnalyzer._detect_voice_activity(audio_data): samples is
\* len(audio_data), loud the frames (numbered from 1) of the padded audio
\* whose RMS energy exceeds energy_threshold.
detect_voice_activity(samples, loud, raises) ==
    IF raises THEN FailedVoiceActivity
    ELSE LET padding == frame_size - (samples % frame_size)
             padded == IF padding # frame_size THEN samples + padding ELSE samples
             total_frames == padded \div frame_size
             speech_frames == Cardinality({ i \in 1..total_frames : i \in loud })
             speech_percentage ==
                 IF total_frames > 0
                 THEN RMul(Rat(speech_frames, total_frames), R(100))
                 ELSE R(0)
         IN  [total_frames |-> total_frames, speech_frames |-> speech_frames,
              speech_percentage |-> speech_percentage,
              silence_percentage |-> RSub(R(100), speech_percentage)]

\* _detect_filler_words: the words, lower-cased and stripped of punctuation,
\* that are filler patterns.  Words are modelled already in that form.
filler_patterns ==
    {"um", "uh", "like", "you know", "so", "well", "actually", "basically",
     "literally", "right", "okay", "alright", "yeah", "yes", "no", "hmm"}

detect_filler_words(words) == SelectSeq(words, LAMBDA w : w \in filler_patterns)

\* the transcript of an answer in which no speech was recognised
ZeroTranscript ==
    [transcript |-> <<>>, word_count |-> 0, speaking_rate |-> R(0),
     filler_words |-> <<>>, filler_word_count |-> 0, confidence |-> R(0)]

\* RealAudioAnalyzer._transcribe_audio(audio_data).  The text is modelled as
\* its list of words.  recognition says how far the call gets: the temporary
\* file cannot be written, the recogniser cannot read it, the service hears
\* no speech or cannot be reached, or the text is recognised.  temp is the
\* set of temporary files the call leaves on disk.
transcribe_audio(samples, words, recognition) ==
    CASE recognition = "write_raises" ->
             [value |-> ZeroTranscript, temp |-> {"transcribe_wav"}]
      [] recognition = "recognizer_raises" ->
             [value |-> ZeroTranscript, temp |-> {"transcribe_wav"}]
      [] recognition \in {"unknown_value", "request_error"} ->
             [value |-> ZeroTranscript, temp |-> {}]
      [] OTHER ->
             LET word_count == Len(words)
                 duration_minutes == RDiv(RDiv(R(samples), R(sample_rate)), R(60))
                 speaking_rate ==
                     IF RLt(R(0), duration_minutes)
                     THEN RDiv(R(word_count), duration_minutes)
                     ELSE R(0)
                 filler_words == detect_filler_words(words)
             IN  [value |-> [transcript |-> words, word_count |-> word_count,
                             speaking_rate |-> speaking_rate,
                             filler_words |-> filler_words,
                             filler_word_count |-> Len(filler_words),
                             confidence |-> Rat(4, 5)],
                  temp |-> {}]

ZeroAudioQuality ==
    [snr |-> R(0), clipping_percentage |-> R(0), dynamic_range |-> R(0),
     quality_score |-> R(0)]

\* RealAudioAnalyzer._analyze_audio_quality, given the measured signal-to-noise
\* ratio, clipping percentage and dynamic range.
analyze_audio_quality(quality, raises) ==
    IF raises THEN ZeroAudioQuality
    ELSE [snr |-> quality.snr, clipping_percentage |-> quality.clipping_percentage,
          dynamic_range |-> quality.dynamic_range,
          quality_score |-> RMax(R(0), RMin(R(100), RMul(quality.snr, R(5))))]

\* RealAudioAnalyzer._empty_analysis
audio_empty_analysis ==
    [duration |-> R(0),
     transcript |-> ZeroTranscript,
     voice_activity |-> FailedVoiceActivity,
     speech_metrics |-> ZeroSpeechMetrics,
     audio_quality |-> ZeroAudioQuality,
     has_speech |-> FALSE]

\* RealAudioAnalyzer._convert_audio_format(input_path): the path it returns
\* and the temporary files it leaves on disk.  conversion names the first
\* method that succeeds, "none" when all three fail, "tempfile_raises" when
\* the temporary file cannot be created.
convert_audio_format(is_wav, conversion) ==
    IF is_wav THEN [path |-> "input_path", temp |-> {}]
    ELSE CASE conversion = "tempfile_raises" ->
                  [path |-> "input_path", temp |-> {}]
           [] conversion \in {"ffmpeg", "pydub", "librosa"} ->
                  [path |-> "converted_wav", temp |-> {"converted_wav"}]
           [] OTHER ->
                  [path |-> "input_path", temp |-> {"converted_wav"}]

\* What a call does: return a value or raise, and the temporary files it
\* leaves on disk.
Returned(value, temp) == [raised |-> FALSE, value |-> Some(value), temp |-> temp]
Raised(temp) == [raised |-> TRUE, value |-> None, temp |-> temp]

\* The try block of analyze_audio_file after the format conversion:
\* librosa.load, the empty check, resampling and level measurement, the four
\* analyses and the result.
analyze_audio_try(a) ==
    IF a.load_raises THEN Raised({})
    ELSE IF a.samples = 0 THEN Returned(audio_empty_analysis, {})
    ELSE IF a.prepare_raises THEN Raised({})
    ELSE LET duration == RDiv(R(a.samples), R(sample_rate))
             transcript_data == transcribe_audio(a.samples, a.words, a.recognition)
             voice_activity == detect_voice_activity(a.samples, a.loud, a.vad_raises)
             speech_metrics ==
                 analyze_speech_patterns(voice_activity.speech_percentage,
                                         a.pitch, a.energy, a.patterns_raises)
             audio_quality == analyze_audio_quality(a.quality, a.quality_raises)
         IN  Returned([duration |-> duration,
                       transcript |-> transcript_data.value,
                       voice_activity |-> voice_activity,
                       speech_metrics |-> speech_metrics,
                       audio_quality |-> audio_quality,
                       has_speech |-> RLt(R(5), voice_activity.speech_percentage)],
                      transcript_data.temp)

\* the finally clause of analyze_audio_file: the converted file is unlinked
\* when the conversion returned a path other than the input's
unlink_converted(conv) ==
    IF conv.path # "input_path" THEN conv.temp \ {conv.path} ELSE conv.temp

\* analyze_audio_file without its except clause
analyze_audio_file_unguarded(a) ==
    LET conv == convert_audio_format(a.is_wav, a.conversion)
        body == analyze_audio_try(a)
    IN  [body EXCEPT !.temp = unlink_converted(conv) \cup body.temp]

\* RealAudioAnalyzer.analyze_audio_file(audio_file_path)
analyze_audio_file(a) ==
    LET conv == convert_audio_format(a.is_wav, a.conversion)
        body == analyze_audio_try(a)
        outcome == IF body.raised
                   THEN Returned(audio_empty_analysis, body.temp)
                   ELSE body
    IN  [outcome EXCEPT !.temp = unlink_converted(conv) \cup outcome.temp]

\* Audio inputs.  MaxVadFrames is the most whole frames of an audio given to
\* the voice activity detector.
MaxVadFrames == 3

\* an audio file: how its conversion and decoding go, its length and loud
\* frames, which analysis stages fail, and what the stages measure
AudioFile(is_wav, conversion, load_raises, samples, loud, stage) ==
    [is_wav |-> is_wav, conversion |-> conversion, load_raises |-> load_raises,
     samples |-> samples, loud |-> loud,
     prepare_raises |-> stage.prepare_raises,
     words |-> IF loud = {} THEN <<>> ELSE <<"um", "i", "built", "it", "well">>,
     recognition |-> stage.recognition,
     vad_raises |-> stage.vad_raises,
     pitch |-> <<R(200), R(10)>>, energy |-> <<Rat(1, 10), Rat(1, 100)>>,
     patterns_raises |-> stage.patterns_raises,
     quality |-> [snr |-> R(12), clipping_percentage |-> R(0),
                  dynamic_range |-> Rat(1, 2)],
     quality_raises |-> stage.quality_raises]

NoFailure ==
    [prepare_raises |-> FALSE, recognition |-> "ok", vad_raises |-> FALSE,
     patterns_raises |-> FALSE, quality_raises |-> FALSE]

\* no stage fails, one stage fails, or every stage after the preparation fails
Stages ==
    { NoFailure,
      [NoFailure EXCEPT !.prepare_raises = TRUE],
      [NoFailure EXCEPT !.vad_raises = TRUE],
      [NoFailure EXCEPT !.patterns_raises = TRUE],
      [NoFailure EXCEPT !.quality_raises = TRUE],
      [prepare_raises |-> FALSE, recognition |-> "recognizer_raises",
       vad_raises |-> TRUE, patterns_raises |-> TRUE, quality_raises |-> TRUE] }
    \cup { [NoFailure EXCEPT !.recognition = r] :
             r \in {"unknown_value", "request_error", "write_raises",
                    "recognizer_raises"} }

\* a .wav input, or another format with each way its conversion can go
AudioFiles ==
    LET Conversions == {"ffmpeg", "pydub", "librosa", "none", "tempfile_raises"}
        Formats == { <<TRUE, "none">> } \cup { <<FALSE, c>> : c \in Conversions }
    IN  { a \in { AudioFile(format[1], format[2], load_raises, samples, loud, stage) :
                    format \in Formats, load_raises \in BOOLEAN,
                    samples \in {0, 2 * frame_size}, loud \in {{}, {1, 2}},
                    stage \in Stages } :
            a.samples = 0 => a.loud = {} }

\* ------------------------------------------------------- RealVideoAnalyzer
\* numpy.sqrt: exact on squares, otherwise rounded down to two decimals
RECURSIVE ISqrtIn(_, _, _)
ISqrtIn(n, lo, hi) ==
    IF lo >= hi THEN lo
    ELSE LET mid == (lo + hi + 1) \div 2
         IN  IF mid * mid <= n THEN ISqrtIn(n, mid, hi) ELSE ISqrtIn(n, lo, mid - 1)

RSqrt(x) ==
    LET ISqrt(k) == ISqrtIn(k, 0, IF k < 40000 THEN k ELSE 40000)
        n == ISqrt(x[1])
        d == ISqrt(x[2])
    IN  IF n * n = x[1] /\ d * d = x[2]
        THEN Rat(n, d)
        ELSE Rat(ISqrt((x[1] * 10000) \div x[2]), 100)

\* analyze_video_file: "Sample every 5th frame for performance"
frame_skip == 5

NoFaceData ==
    [has_face |-> FALSE, has_eyes |-> FALSE, face_center |-> None, face_size |-> 0]

\* RealVideoAnalyzer._analyze_frame(frame): a frame is given by the largest
\* face <<x, y, w, h>> the face cascade finds in it, if any, and the number
\* of eyes the eye cascade finds inside that face.
analyze_frame(frame) ==
    IF frame.raises THEN NoFaceData
    ELSE IF frame.face = None THEN NoFaceData
    ELSE LET x == frame.face[1][1]
             y == frame.face[1][2]
             w == frame.face[1][3]
             h == frame.face[1][4]
         IN  [has_face |-> TRUE,
              has_eyes |-> frame.eyes >= 2,
              face_center |-> Some(<<x + (w \div 2), y + (h \div 2)>>),
              face_size |-> w * h]

\* RealVideoAnalyzer._calculate_position_stability(face_positions)
calculate_position_stability(positions) ==
    IF Len(positions) < 2 THEN R(0)
    ELSE LET movements ==
                 [i \in 1..(Len(positions) - 1) |->
                     LET prev_pos == positions[i]
                         curr_pos == positions[i + 1]
                         dx == curr_pos[1] - prev_pos[1]
                         dy == curr_pos[2] - prev_pos[2]
                     IN  RSqrt(R(dx * dx + dy * dy))]
             avg_movement == RMean(movements)
         IN  RMax(R(0), RSub(R(100), RDiv(avg_movement, R(10))))

\* RealVideoAnalyzer._calculate_size_consistency(face_sizes)
calculate_size_consistency(sizes) ==
    IF Len(sizes) < 2 THEN R(0)
    ELSE LET values == [i \in 1..Len(sizes) |-> R(sizes[i])]
             mean_size == RMean(values)
             squares == [i \in 1..Len(sizes) |->
                            RMul(RSub(values[i], mean_size), RSub(values[i], mean_size))]
             std_size == RSqrt(RMean(squares))
         IN  IF mean_size = R(0) THEN R(0)
             ELSE RMax(R(0), RSub(R(100), RMul(RDiv(std_size, mean_size), R(100))))

\* _calculate_confidence_score with the weights of visibility and eye contact swapped
video_confidence_score_swapped(face_detection_rate, eye_contact_percentage, position_stability) ==
    LET confidence ==
            RAdd(RAdd(RMul(face_detection_rate, Rat(5, 10)),
                      RMul(eye_contact_percentage, Rat(3, 10))),
                 RMul(position_stability, Rat(2, 10)))
    IN  RMin(R(100), RMax(R(0), confidence))

\* RealVideoAnalyzer._calculate_confidence_score
video_confidence_score(face_detection_rate, eye_contact_percentage, position_stability) ==
    LET confidence ==
            RAdd(RAdd(RMul(face_detection_rate, Rat(3, 10)),
                      RMul(eye_contact_percentage, Rat(5, 10))),
                 RMul(position_stability, Rat(2, 10)))
    IN  RMin(R(100), RMax(R(0), confidence))

\* RealVideoAnalyzer._calculate_nervousness_score
video_nervousness_score(position_stability, size_consistency) ==
    LET nervousness ==
            RAdd(RMul(RSub(R(100), position_stability), Rat(6, 10)),
                 RMul(RSub(R(100), size_consistency), Rat(4, 10)))
    IN  RMin(R(100), RMax(R(0), nervousness))

\* RealVideoAnalyzer._empty_analysis
video_empty_analysis ==
    [duration |-> R(0), total_frames |-> 0, frames_analyzed |-> 0,
     frames_with_face |-> 0, frames_with_eyes |-> 0,
     face_detection_rate |-> R(0), eye_contact_percentage |-> R(0),
     position_stability |-> R(0), size_consistency |-> R(0),
     has_face |-> FALSE,
     metrics |-> [confidence_score |-> R(0), nervousness_score |-> R(0),
                  eye_contact_percentage |-> R(0), face_detection_rate |-> R(0)]]

\* analyze_video_file after its frame loop: the metrics and the result
video_result(v, analyzed, with_face, with_eyes, positions, sizes) ==
    LET duration == IF RLt(R(0), v.fps) THEN RDiv(R(Len(v.frames)), v.fps) ELSE R(0)
        face_detection_rate ==
            IF analyzed > 0 THEN RMul(Rat(with_face, analyzed), R(100)) ELSE R(0)
        eye_contact_percentage ==
            IF analyzed > 0 THEN RMul(Rat(with_eyes, analyzed), R(100)) ELSE R(0)
        position_stability == calculate_position_stability(positions)
        size_consistency == calculate_size_consistency(sizes)
    IN  [duration |-> duration, total_frames |-> Len(v.frames),
         frames_analyzed |-> analyzed,
         frames_with_face |-> with_face, frames_with_eyes |-> with_eyes,
         face_detection_rate |-> face_detection_rate,
         eye_contact_percentage |-> eye_contact_percentage,
         position_stability |-> position_stability,
         size_consistency |-> size_consistency,
         has_face |-> RLt(R(10), face_detection_rate),
         metrics |->
             [confidence_score |->
                  video_confidence_score(face_detection_rate, eye_contact_percentage,
                                         position_stability),
              nervousness_score |->
                  video_nervousness_score(position_stability, size_consistency),
              eye_contact_percentage |-> eye_contact_percentage,
              face_detection_rate |-> face_detection_rate]]

\* RealVideoAnalyzer.analyze_video_file(video_file_path) as one call.  A
\* video is given by whether it opens, its frames, its frame rate and the
\* read (counted from 1) at which cap.read() raises, 0 for never.
analyze_video_file(v) ==
    IF ~v.opens THEN video_empty_analysis
    ELSE IF v.raises_at # 0 THEN video_empty_analysis
    ELSE LET data == [i \in 1..(Len(v.frames) \div frame_skip) |->
                         analyze_frame(v.frames[i * frame_skip])]
             faces == SelectSeq(data, LAMBDA d : d.has_face)
             eyes == SelectSeq(faces, LAMBDA d : d.has_eyes)
         IN  video_result(v, Len(data), Len(faces), Len(eyes),
                          [i \in 1..Len(faces) |-> faces[i].face_center[1]],
                          [i \in 1..Len(faces) |-> faces[i].face_size])

\* Video inputs.  MaxFrames is the most frames of a video.
MaxFrames == 10

\* a frame: "blank" shows no face, on "broken" the detection raises, "face"
\* shows a face and one eye, "eyes" a face and two eyes
Frame(kind) ==
    CASE kind = "face" -> [raises |-> FALSE, face |-> Some(<<95, 95, 10, 10>>), eyes |-> 1]
      [] kind = "eyes" -> [raises |-> FALSE, face |-> Some(<<126, 136, 8, 8>>), eyes |-> 2]
      [] OTHER -> [raises |-> kind = "broken", face |-> None, eyes |-> 0]

FrameKinds == { Frame(kind) : kind \in {"blank", "broken", "face", "eyes"} }

Video(opens, frames, fps, raises_at) ==
    [opens |-> opens, frames |-> frames, fps |-> fps, raises_at |-> raises_at]

\* Scenario A: ten frames, numbered from first; a face in frames 1, 3, 5, 7, 9,
\* of which frames 3 and 7 also show two eyes.
ScenarioA(first) ==
    Video(TRUE,
          [i \in 1..10 |->
              LET n == i - 1 + first
              IN  IF n \in {3, 7} THEN Frame("eyes")
                  ELSE IF n \in {1, 5, 9} THEN Frame("face")
                  ELSE Frame("blank")],
          R(30), 0)

\* n frames repeating a pattern of frame kinds
Patterned(n, pattern) == [i \in 1..n |-> pattern[((i - 1) % Len(pattern)) + 1]]

Videos ==
    { ScenarioA(0), ScenarioA(1), Video(FALSE, <<>>, R(0), 0) }
    \cup { Video(TRUE, Patterned(n, pattern), R(30), raises_at) :
             n \in {0, 3, 5, 7, MaxFrames},
             pattern \in { <<k>> : k \in FrameKinds } \cup (FrameKinds \X FrameKinds),
             raises_at \in {0, 1} }
    \cup { Video(TRUE, Patterned(n, <<Frame("eyes")>>), R(0), 0) : n \in 0..MaxFrames }

\* --------------------------------------------- upload handlers (both main.py)
\* analyze_audio: "Create voice metrics based on real analysis"
upload_voice_metrics(analysis_result) ==
    LET speech_metrics == analysis_result.speech_metrics
        audio_quality == analysis_result.audio_quality
    IN  [stability_score |-> speech_metrics.stability_score,
         clarity_score |-> audio_quality.quality_score,
         pitch_analysis |->
             [mean_pitch |-> speech_metrics.pitch_mean,
              pitch_stability |-> RSub(R(100), RMin(R(100), speech_metrics.pitch_std))],
         energy_analysis |->
             [mean_energy |-> speech_metrics.energy_mean,
              energy_stability |-> RSub(R(100), RMin(R(100), speech_metrics.energy_std))],
         voice_activity |-> analysis_result.voice_activity]

\* analyze_video: "Create emotion analysis based on real analysis"
upload_emotion_analysis(analysis_result) ==
    [duration |-> analysis_result.duration,
     total_frames |-> analysis_result.total_frames,
     analyzed_frames |-> analysis_result.frames_analyzed,
     face_detected_frames |-> analysis_result.frames_with_face,
     face_detection_rate |-> RDiv(analysis_result.face_detection_rate, R(100)),
     metrics |-> analysis_result.metrics]

\* The recordings a client uploads: the handlers save every audio as
\* temp_audio_<session>_<question>.wav.
\* a silent recording, a spoken answer, and a file that cannot be decoded
UploadedAudio ==
    { AudioFile(TRUE, "none", FALSE, 2 * frame_size, {},
                [NoFailure EXCEPT !.recognition = "unknown_value"]),
      AudioFile(TRUE, "none", FALSE, 2 * frame_size, {1, 2}, NoFailure),
      AudioFile(TRUE, "none", TRUE, 0, {}, NoFailure) }

\* a ten-frame video, a video shorter than frame_skip, and a file that
\* cannot be opened
UploadedVideos ==
    { ScenarioA(1),
      Video(TRUE, Patterned(3, <<Frame("eyes")>>), R(30), 0),
      Video(FALSE, <<>>, R(0), 0) }

\* ------------------------------------------- calculate_confidence_score (main.py)
main_voice_scores(responses) ==
    LET sel == SelectSeq(responses, LAMBDA r : Truthy(r.voice_metrics))
    IN  [i \in 1..Len(sel) |->
            RDiv(RAdd(R(Get(sel[i].voice_metrics[1].stability_score, 70)),
                      R(Get(sel[i].voice_metrics[1].clarity_score, 70))), R(2))]

MetricOrDefault(emotion_analysis, key, default) ==
    LET metrics == emotion_analysis[1].metrics
    IN  IF metrics = None THEN default ELSE Get(metrics[1][key], default)

main_emotion_scores(responses) ==
    LET sel == SelectSeq(responses, LAMBDA r : Truthy(r.emotion_analysis))
    IN  [i \in 1..Len(sel) |->
            RDiv(RAdd(R(MetricOrDefault(sel[i].emotion_analysis, "confidence_score", 70)),
                      R(MetricOrDefault(sel[i].emotion_analysis,
                                        "eye_contact_percentage", 70))), R(2))]

\* round(x, 1)
Round1(x) ==
    LET t == RMul(x, R(10))
        fl == t[1] \div t[2]
        twice == 2 * t[1] - 2 * fl * t[2]
    IN  IF twice < t[2] THEN Rat(fl, 10)
        ELSE IF twice > t[2] THEN Rat(fl + 1, 10)
        ELSE IF fl % 2 = 0 THEN Rat(fl, 10) ELSE Rat(fl + 1, 10)

calculate_confidence_score(responses) ==
    IF responses = <<>> THEN [overall_score |-> R(0)]
    ELSE LET all_scores == main_voice_scores(responses) \o main_emotion_scores(responses)
             overall_score == IF all_scores # <<>> THEN RMean(all_scores) ELSE R(70)
         IN  [overall_score |-> Round1(overall_score),
              component_scores |->
                 [voice_stability |->
                     [score |-> IF main_voice_scores(responses) # <<>>
                                THEN RMean(main_voice_scores(responses)) ELSE R(70),
                      weight |-> Rat(4, 10)],
                  emotional_confidence |->
                     [score |-> IF main_emotion_scores(responses) # <<>>
                                THEN RMean(main_emotion_scores(responses)) ELSE R(70),
                      weight |-> Rat(6, 10)]]]

\* ------------------------------------------------------------------ state
\* The session ids SessionManager calls name: "s1" gets created, "s2" never is.
ManagerIds == {"s1", "s2"}

\* The upload requests in flight at once for one session_id and question_index.
MaxInflight == 3

VARIABLES
    responses,      \* the answer list handed to the scorers
    weights,        \* ConfidenceScorer.weights
    result,         \* the value returned by the last calculate_score call, if any
    scored,         \* the answer list the last scoring call was given
    repeated,       \* the last calculate_score call was given the same list as the one before
    real_result,    \* the value returned by the last calculate_real_confidence_score call
    score_in,       \* the score given to the last _interpret_score call
    interpretation, \* the value that call returned
    transcript_in,  \* the transcript given to the last _calculate_filler_word_score call
    filler_out,     \* the value that call returned
    speech_in,      \* the inputs of the last voice stability analysis
    speech_out,     \* the metrics that analysis returned
    services,       \* main.py: the module-level analyzers and generators
    sessions,       \* main.py: the in-memory session store
    feedback,       \* main.py: the response of the last get_feedback request
    reply,          \* the response of the last upload request (either application)
    uploads,        \* the number of upload requests handled so far
    real_sessions,  \* backend/main.py: the in-memory session store
    vad_in,         \* the audio given to the last _detect_voice_activity call
    vad_out,        \* the value that call returned
    audio_in,       \* the file given to the last analyze_audio_file call
    audio_out,      \* the value that call returned
    temp_files,     \* the temporary WAV files on disk
    video,          \* the file analyze_video_file is working on
    pc,             \* the position of analyze_video_file
    cap,            \* the state of its cv2.VideoCapture
    frame_count,    \* its local variables
    frames_analyzed,
    frames_with_face,
    frames_with_eyes,
    face_positions,
    face_sizes,
    video_out,      \* the value the last analyze_video_file call returned
    indicators_in,  \* the rates given to the last composite indicator calculation
    indicators_out, \* the indicators it returned
    temp_audio,     \* backend/main.py: the file at an upload's temporary path
    requests,       \* the upload requests in flight for one answer
    manager_sessions, \* SessionManager.sessions
    clock,          \* datetime.now(), in hours
    manager_out,    \* the last SessionManager call and the value it returned
    manager_log,    \* per session: its first created_at, the responses added with True
    op              \* the last operation performed

scorerVars == <<responses, weights, result, scored, repeated, real_result>>
pureVars == <<score_in, interpretation, transcript_in, filler_out, speech_in, speech_out>>
httpVars == <<services, sessions, feedback>>
uploadVars == <<reply, uploads, real_sessions>>
analyzerVars == <<vad_in, vad_out, audio_in, audio_out, temp_files,
                  indicators_in, indicators_out>>
videoVars == <<video, pc, cap, frame_count, frames_analyzed, frames_with_face,
               frames_with_eyes, face_positions, face_sizes, video_out>>
inflightVars == <<temp_audio, requests>>
managerVars == <<manager_sessions, clock, manager_out, manager_log>>
mediaVars == <<uploadVars, analyzerVars, videoVars, inflightVars, managerVars>>
vars == <<responses, weights, result, scored, repeated, real_result,
          score_in, interpretation, transcript_in, filler_out, speech_in, speech_out,
          services, sessions, feedback, mediaVars, op>>

Init ==
    /\ responses = <<>>
    /\ weights = InitWeights
    /\ result = None
    /\ scored = None
    /\ repeated = FALSE
    /\ real_result = None
    /\ score_in = None
    /\ interpretation = None
    /\ transcript_in = None
    /\ filler_out = None
    /\ speech_in = None
    /\ speech_out = None
    /\ services = [started |-> FALSE, audio_analyzer |-> FALSE, video_analyzer |-> FALSE,
                   question_generator |-> FALSE, answer_rater |-> FALSE,
                   feedback_generator |-> FALSE]
    /\ sessions = <<>>
    /\ feedback = None
    /\ reply = None
    /\ uploads = 0
    /\ real_sessions = <<>>
    /\ vad_in = None
    /\ vad_out = None
    /\ audio_in = None
    /\ audio_out = None
    /\ temp_files = {}
    /\ video = None
    /\ pc = "idle"
    /\ cap = "none"
    /\ frame_count = 0
    /\ frames_analyzed = 0
    /\ frames_with_face = 0
    /\ frames_with_eyes = 0
    /\ face_positions = <<>>
    /\ face_sizes = <<>>
    /\ video_out = None
    /\ indicators_in = None
    /\ indicators_out = None
    /\ temp_audio = None
    /\ requests = [r \in 1..MaxInflight |->
                       [pc |-> "start", handle |-> FALSE, analysed |-> None]]
    /\ manager_sessions = [session_id \in ManagerIds |-> None]
    /\ clock = 0
    /\ manager_out = None
    /\ manager_log = [session_id \in ManagerIds |-> None]
    /\ op = "init"

\* ------------------------------------------------------- scorer operations
\* A caller appends one more analysed answer to the list.
AddResponse ==
    /\ Len(responses) < MaxResponses
    /\ \E r \in ResponseOptions : responses' = Append(responses, r)
    /\ op' = "add_response"
    /\ UNCHANGED <<weights, result, scored, repeated, real_result>>
    /\ UNCHANGED <<pureVars, httpVars, mediaVars>>

\* A scorer that discards, in place, the answers that carry no voice metrics.
CalculateScore_pruning ==
    /\ result' = Some(calculate_score(weights, responses))
    /\ scored' = Some(responses)
    /\ repeated' = (scored = Some(responses))
    /\ op' = "calculate_score"
    /\ responses' = SelectSeq(responses, LAMBDA r : Truthy(r.voice_metrics))
    /\ UNCHANGED <<weights, real_result>>
    /\ UNCHANGED <<pureVars, httpVars, mediaVars>>

\* scorer.calculate_score(responses)
CalculateScore ==
    /\ result' = Some(calculate_score(weights, responses))
    /\ scored' = Some(responses)
    /\ repeated' = (scored = Some(responses))
    /\ op' = "calculate_score"
    /\ UNCHANGED <<responses, weights, real_result>>
    /\ UNCHANGED <<pureVars, httpVars, mediaVars>>

\* calculate_real_confidence_score(responses)
CalculateRealConfidenceScore ==
    /\ real_result' = Some(calculate_real_confidence_score(responses))
    /\ scored' = Some(responses)
    /\ op' = "calculate_real_confidence_score"
    /\ UNCHANGED <<responses, weights, result, repeated>>
    /\ UNCHANGED <<pureVars, httpVars, mediaVars>>

\* scorer._interpret_score(score)
ScoreGrid == { Rat(k, ScoreDen) : k \in (-5 * ScoreDen)..(105 * ScoreDen) }

InterpretScore ==
    /\ \E score \in ScoreGrid :
           /\ score_in' = Some(score)
           /\ interpretation' = Some(interpret_score(score))
    /\ op' = "interpret_score"
    /\ UNCHANGED <<transcript_in, filler_out, speech_in, speech_out>>
    /\ UNCHANGED <<scorerVars, httpVars, mediaVars>>

\* scorer._calculate_filler_word_score(transcript_data)
FillerInputs ==
    { None,
      Some([filler_words |-> None, filler_word_count |-> None, word_count |-> None]) }
    \cup { Transcript(f, w) : f \in 0..MaxFillers, w \in (0..MaxWords) \cup {100} }

FillerWordScore ==
    /\ \E transcript_data \in FillerInputs :
           /\ transcript_in' = Some(transcript_data)
           /\ filler_out' = Some(calculate_filler_word_score(transcript_data))
    /\ op' = "calculate_filler_word_score"
    /\ UNCHANGED <<score_in, interpretation, speech_in, speech_out>>
    /\ UNCHANGED <<scorerVars, httpVars, mediaVars>>

\* ------------------------------------------------------ analyzer operations
\* RealAudioAnalyzer._analyze_speech_patterns(audio_data, voice_activity)
AnalyzeSpeechPatterns ==
    /\ \E sp \in SpeechPercentages, pitch \in PitchStats, energy \in EnergyStats,
          raises \in BOOLEAN :
           \* audio with speech-bearing frames has some RMS energy
           /\ RGe(sp, R(1)) => energy[1] # R(0)
           /\ speech_in' = Some([analyzer |-> "RealAudioAnalyzer", speech_percentage |-> sp,
                                 pitch |-> pitch, energy |-> energy, raises |-> raises])
           /\ speech_out' = Some(analyze_speech_patterns(sp, pitch, energy, raises))
    /\ op' = "analyze_speech_patterns"
    /\ UNCHANGED <<score_in, interpretation, transcript_in, filler_out>>
    /\ UNCHANGED <<scorerVars, httpVars, mediaVars>>

\* VoiceAnalyzer.analyze_audio: _analyze_pitch, _analyze_energy, _calculate_stability_score
VoiceAnalyzerAnalyze ==
    /\ \E pitch \in PitchStats, energy \in EnergyStats :
           /\ speech_in' = Some([analyzer |-> "VoiceAnalyzer", speech_percentage |-> R(100),
                                 pitch |-> pitch, energy |-> energy, raises |-> FALSE])
           /\ speech_out' = Some(voice_analyzer_stability(pitch, energy))
    /\ op' = "voice_analyzer_analyze"
    /\ UNCHANGED <<score_in, interpretation, transcript_in, filler_out>>
    /\ UNCHANGED <<scorerVars, httpVars, mediaVars>>

\* RealAudioAnalyzer._detect_voice_activity(audio_data)
DetectVoiceActivity ==
    /\ \E whole \in 0..MaxVadFrames, rest \in {0, 1, frame_size - 1}, raises \in BOOLEAN :
         LET samples == whole * frame_size + rest
         IN  \E loud \in SUBSET (1..(whole + 1)) :
                 \* only frames of the audio can be loud
                 /\ loud \subseteq 1..(whole + (IF rest > 0 THEN 1 ELSE 0))
                 /\ vad_in' = Some([samples |-> samples, loud |-> loud, raises |-> raises])
                 /\ vad_out' = Some(detect_voice_activity(samples, loud, raises))
    /\ op' = "detect_voice_activity"
    /\ UNCHANGED <<scorerVars, pureVars, httpVars, inflightVars, managerVars>>
    /\ UNCHANGED <<audio_in, audio_out, temp_files, indicators_in, indicators_out>>
    /\ UNCHANGED <<uploadVars, videoVars>>

\* RealAudioAnalyzer.analyze_audio_file(audio_file_path); the temporary files
\* of earlier calls stay on disk.
AnalyzeAudioFile ==
    /\ \E a \in AudioFiles :
         LET outcome == analyze_audio_file(a)
         IN  /\ audio_in' = Some(a)
             /\ audio_out' = Some([raised |-> outcome.raised, value |-> outcome.value])
             /\ temp_files' = temp_files \cup outcome.temp
    /\ op' = "analyze_audio_file"
    /\ UNCHANGED <<scorerVars, pureVars, httpVars, inflightVars, managerVars>>
    /\ UNCHANGED <<vad_in, vad_out, indicators_in, indicators_out>>
    /\ UNCHANGED <<uploadVars, videoVars>>

\* analyze_video_file up to its frame loop: cv2.VideoCapture, cap.isOpened()
OpenVideo ==
    /\ pc \in {"idle", "done"}
    /\ \E v \in Videos :
         /\ video' = Some(v)
         /\ IF v.opens
            THEN /\ cap' = "open"
                 /\ pc' = "loop"
                 /\ video_out' = None
            ELSE /\ cap' = "unopened"
                 /\ pc' = "done"
                 /\ video_out' = Some(video_empty_analysis)
    /\ frame_count' = 0
    /\ frames_analyzed' = 0
    /\ frames_with_face' = 0
    /\ frames_with_eyes' = 0
    /\ face_positions' = <<>>
    /\ face_sizes' = <<>>
    /\ op' = "open_video"
    /\ UNCHANGED <<scorerVars, pureVars, httpVars, inflightVars, managerVars>>
    /\ UNCHANGED <<uploadVars, analyzerVars>>

\* one iteration of the frame loop that appends a position for every analysed frame
ReadFrame_all_positions ==
    /\ pc = "loop"
    /\ video[1].raises_at # frame_count + 1
    /\ frame_count < Len(video[1].frames)
    /\ frame_count' = frame_count + 1
    /\ IF frame_count' % frame_skip # 0
       THEN UNCHANGED <<frames_analyzed, frames_with_face, frames_with_eyes,
                        face_positions, face_sizes>>
       ELSE LET face_data == analyze_frame(video[1].frames[frame_count'])
            IN  /\ frames_analyzed' = frames_analyzed + 1
                /\ face_positions' =
                       Append(face_positions,
                              IF face_data.has_face THEN face_data.face_center[1]
                              ELSE <<0, 0>>)
                /\ IF face_data.has_face
                   THEN /\ frames_with_face' = frames_with_face + 1
                        /\ face_sizes' = Append(face_sizes, face_data.face_size)
                        /\ frames_with_eyes' =
                               IF face_data.has_eyes THEN frames_with_eyes + 1
                               ELSE frames_with_eyes
                   ELSE UNCHANGED <<frames_with_face, frames_with_eyes, face_sizes>>
    /\ op' = "read_frame"
    /\ UNCHANGED <<video, pc, cap, video_out>>
    /\ UNCHANGED <<scorerVars, pureVars, httpVars, inflightVars, managerVars>>
    /\ UNCHANGED <<uploadVars, analyzerVars>>

\* one iteration of the frame loop: cap.read() returns a frame
ReadFrame ==
    /\ pc = "loop"
    /\ video[1].raises_at # frame_count + 1
    /\ frame_count < Len(video[1].frames)
    /\ frame_count' = frame_count + 1
    /\ IF frame_count' % frame_skip # 0
       THEN UNCHANGED <<frames_analyzed, frames_with_face, frames_with_eyes,
                        face_positions, face_sizes>>
       ELSE LET face_data == analyze_frame(video[1].frames[frame_count'])
            IN  /\ frames_analyzed' = frames_analyzed + 1
                /\ IF face_data.has_face
                   THEN /\ frames_with_face' = frames_with_face + 1
                        /\ face_positions' = Append(face_positions, face_data.face_center[1])
                        /\ face_sizes' = Append(face_sizes, face_data.face_size)
                        /\ frames_with_eyes' =
                               IF face_data.has_eyes THEN frames_with_eyes + 1
                               ELSE frames_with_eyes
                   ELSE UNCHANGED <<frames_with_face, frames_with_eyes,
                                    face_positions, face_sizes>>
    /\ op' = "read_frame"
    /\ UNCHANGED <<video, pc, cap, video_out>>
    /\ UNCHANGED <<scorerVars, pureVars, httpVars, inflightVars, managerVars>>
    /\ UNCHANGED <<uploadVars, analyzerVars>>

\* cap.read() raises: the except clause returns the empty analysis
ReadRaises ==
    /\ pc = "loop"
    /\ video[1].raises_at = frame_count + 1
    /\ video_out' = Some(video_empty_analysis)
    /\ pc' = "done"
    /\ op' = "read_raises"
    /\ UNCHANGED <<video, cap, frame_count, frames_analyzed, frames_with_face,
                   frames_with_eyes, face_positions, face_sizes>>
    /\ UNCHANGED <<scorerVars, pureVars, httpVars, inflightVars, managerVars>>
    /\ UNCHANGED <<uploadVars, analyzerVars>>

\* cap.read() returns no frame: break, cap.release(), the metrics, the result
FinishVideo ==
    /\ pc = "loop"
    /\ video[1].raises_at # frame_count + 1
    /\ frame_count = Len(video[1].frames)
    /\ cap' = "released"
    /\ video_out' = Some(video_result(video[1], frames_analyzed, frames_with_face,
                                      frames_with_eyes, face_positions, face_sizes))
    /\ pc' = "done"
    /\ op' = "finish_video"
    /\ UNCHANGED <<video, frame_count, frames_analyzed, frames_with_face,
                   frames_with_eyes, face_positions, face_sizes>>
    /\ UNCHANGED <<scorerVars, pureVars, httpVars, inflightVars, managerVars>>
    /\ UNCHANGED <<uploadVars, analyzerVars>>

\* ------------------------------------------------- HTTP layer (src/main.py)
\* Most sessions, most upload requests, and the questions of a full session.
MaxSessions == 1
MaxUploads == 2
MaxQuestions == 2

\* random.randint(65, 85); the draws tried are the two ends of the range
RandLow == 65
RandHigh == 85

\* What the audio analyzer reports for an upload: a spoken answer or silence.
AudioOutcomes ==
    { [transcript |-> T1, voice_metrics |-> V1],
      [transcript |-> Transcript(0, 0), voice_metrics |-> VoiceMetrics(Some(0), Some(0))] }

\* What the video analyzer reports for an upload.
VideoOutcomes == { E1, E2 }

\* session_id in sessions: ids are handed out in order, sessions are never removed.
Known(session_id) == session_id \in 1..Len(sessions)

\* Module load, before any request of the process: each analyzer and
\* generator is constructed, or left None when its import or constructor fails.
Startup ==
    /\ ~services.started
    /\ uploads = 0 /\ real_sessions = <<>>
    /\ \E a \in BOOLEAN, v \in BOOLEAN, q \in BOOLEAN, r \in BOOLEAN, f \in BOOLEAN :
           services' = [started |-> TRUE, audio_analyzer |-> a, video_analyzer |-> v,
                        question_generator |-> q, answer_rater |-> r,
                        feedback_generator |-> f]
    /\ op' = "startup"
    /\ UNCHANGED <<sessions, feedback>>
    /\ UNCHANGED <<scorerVars, pureVars, mediaVars>>

\* POST /api/interview/start.  generation: what generate_questions does when
\* there is a generator; the fallback takes num_questions of DEMO_QUESTIONS.
\* generated: the questions stored are the ones the generator returned.
StartInterview ==
    /\ services.started
    /\ Len(sessions) < MaxSessions
    /\ \E num_questions \in {0, MaxQuestions},
          generation \in {"returns", "raises", "returns_nothing"} :
         LET generated == /\ services.question_generator
                          /\ generation = "returns"
                          /\ num_questions > 0
             questions == num_questions
             questions_source ==
                 IF services.question_generator /\ questions > 0
                 THEN "ai_generated" ELSE "fallback"
         IN  /\ sessions' = Append(sessions, [questions |-> questions,
                                              questions_source |-> questions_source,
                                              responses |-> <<>>,
                                              answer_ratings |-> <<>>])
             /\ reply' = Some([app |-> "main", handler |-> "start_interview",
                               status |-> 200, questions_source |-> questions_source,
                               generated |-> generated])
    /\ op' = "start_interview"
    /\ UNCHANGED <<services, feedback, uploads, real_sessions>>
    /\ UNCHANGED <<scorerVars, pureVars, analyzerVars, videoVars, inflightVars,
                   managerVars>>

\* the question indexes requests name: the first and the last question and,
\* as a Form int may be negative, -1
QuestionIndexes == {-1, 0, MaxQuestions - 1}

\* the list index Python resolves list[question_index] to, from 1, for a
\* list of the given length; 0 stands for IndexError
ListIndex(length, question_index) ==
    IF question_index >= 0
    THEN IF question_index < length THEN question_index + 1 ELSE 0
    ELSE IF -question_index <= length THEN length + question_index + 1 ELSE 0

\* the response of an upload handler: the success body or HTTPException(500)
UploadReply(app, handler, status) ==
    Some([app |-> app, handler |-> handler, status |-> status])

\* transcript_data.get("transcript"): the answer has recognised text
HasText(transcript) == Truthy(transcript) /\ Get(transcript[1].word_count, 0) > 0

\* what rate_answer returns for the answer to a question, without or with the
\* video's emotion analysis
Rating(question_index, with_emotion) ==
    [question_index |-> question_index, with_emotion |-> with_emotion]

\* response_data["answer_rating"] = None
PyNone == [is_none |-> TRUE]

\* POST /api/analyze/audio.  rating_raises: answer_rater.rate_answer raises.
AnalyzeAudio ==
    /\ services.started
    /\ uploads < MaxUploads
    /\ uploads' = uploads + 1
    /\ \E session_id \in 1..(MaxSessions + 1), question_index \in QuestionIndexes,
          analysis \in AudioOutcomes, save_raises \in BOOLEAN, rating_raises \in BOOLEAN :
         IF save_raises
         THEN \* writing the upload to the temporary file raises
              /\ reply' = UploadReply("main", "analyze_audio", 500)
              /\ UNCHANGED sessions
         ELSE IF ~services.audio_analyzer \/ ~Known(session_id)
         THEN \* the demo analysis, or nothing to store the analysis in
              /\ reply' = UploadReply("main", "analyze_audio", 200)
              /\ UNCHANGED sessions
         ELSE LET session_data == sessions[session_id]
                  has_question == question_index < session_data.questions
                  rate == /\ has_question
                          /\ services.answer_rater
                          /\ HasText(analysis.transcript)
                  rated == rate /\ ~rating_raises
                  response_data ==
                      [question_index |-> question_index,
                       transcript |-> analysis.transcript,
                       voice_metrics |-> analysis.voice_metrics,
                       emotion_analysis |-> None,
                       answer_rating |->
                           IF rated THEN Some(Rating(question_index, FALSE))
                           ELSE IF rate THEN Some(PyNone)
                           ELSE None]
              IN  IF has_question /\ ListIndex(session_data.questions, question_index) = 0
                  THEN \* session_data["questions"][question_index]: IndexError
                       /\ reply' = UploadReply("main", "analyze_audio", 500)
                       /\ UNCHANGED sessions
                  ELSE /\ sessions' =
                              [sessions EXCEPT
                                  ![session_id].answer_ratings =
                                      IF rated THEN Append(@, Rating(question_index, FALSE))
                                      ELSE @,
                                  ![session_id].responses = Append(@, response_data)]
                       /\ reply' = UploadReply("main", "analyze_audio", 200)
    /\ op' = "analyze_audio"
    /\ UNCHANGED <<services, feedback, real_sessions>>
    /\ UNCHANGED <<scorerVars, pureVars, analyzerVars, videoVars, inflightVars,
                 managerVars>>

\* POST /api/analyze/video
AnalyzeVideo ==
    /\ services.started
    /\ uploads < MaxUploads
    /\ uploads' = uploads + 1
    /\ \E session_id \in 1..(MaxSessions + 1), question_index \in QuestionIndexes,
          emotion_analysis \in VideoOutcomes, save_raises \in BOOLEAN,
          rating_raises \in BOOLEAN :
         IF save_raises
         THEN /\ reply' = UploadReply("main", "analyze_video", 500)
              /\ UNCHANGED sessions
         ELSE IF ~(/\ services.video_analyzer
                   /\ Known(session_id)
                   /\ Len(sessions[session_id].responses) > question_index)
         THEN /\ reply' = UploadReply("main", "analyze_video", 200)
              /\ UNCHANGED sessions
         ELSE LET session_data == sessions[session_id]
                  i == ListIndex(Len(session_data.responses), question_index)
              IN  IF i = 0
                  THEN \* responses[question_index]: IndexError
                       /\ reply' = UploadReply("main", "analyze_video", 500)
                       /\ UNCHANGED sessions
                  ELSE LET response_data == session_data.responses[i]
                           \* the re-rating; an exception in it is caught and printed
                           rerate ==
                               /\ Truthy(response_data.answer_rating)
                               /\ response_data.answer_rating[1] # PyNone
                               /\ services.answer_rater
                               /\ ListIndex(session_data.questions, question_index) # 0
                               /\ HasText(response_data.transcript)
                               /\ ~rating_raises
                           updated_rating == Rating(question_index, TRUE)
                           k == ListIndex(Len(session_data.answer_ratings), question_index)
                       IN  /\ sessions' =
                                  [sessions EXCEPT
                                      ![session_id].responses[i] =
                                          [@ EXCEPT
                                              !.emotion_analysis = emotion_analysis,
                                              !.answer_rating =
                                                  IF rerate THEN Some(updated_rating)
                                                  ELSE @],
                                      ![session_id].answer_ratings =
                                          IF rerate
                                             /\ Len(@) > question_index
                                             /\ k # 0
                                          THEN [@ EXCEPT ![k] = updated_rating]
                                          ELSE @]
                           /\ reply' = UploadReply("main", "analyze_video", 200)
    /\ op' = "analyze_video"
    /\ UNCHANGED <<services, feedback, real_sessions>>
    /\ UNCHANGED <<scorerVars, pureVars, analyzerVars, videoVars, inflightVars,
                 managerVars>>

\* GET /api/answer-rating/{session_id}/{question_index}; the reply names the
\* rating returned.  An HTTPException passes through "except HTTPException:
\* raise"; IndexError becomes 500.
RatingReply(question_index, status, rating) ==
    Some([app |-> "main", handler |-> "get_answer_rating", status |-> status,
          question_index |-> question_index, rating |-> rating])

GetAnswerRating ==
    /\ services.started
    /\ \E session_id \in 1..(MaxSessions + 1), question_index \in QuestionIndexes :
         reply' =
             IF ~Known(session_id)
             THEN RatingReply(question_index, 404, PyNone)
             ELSE LET session_data == sessions[session_id]
                      k == ListIndex(Len(session_data.answer_ratings), question_index)
                      i == ListIndex(Len(session_data.responses), question_index)
                      \* questions[question_index] if question_index < len(questions)
                      question_raises ==
                          /\ question_index < session_data.questions
                          /\ ListIndex(session_data.questions, question_index) = 0
                  IN  IF Len(session_data.answer_ratings) > question_index
                      THEN IF k = 0 \/ question_raises
                           THEN RatingReply(question_index, 500, PyNone)
                           ELSE RatingReply(question_index, 200,
                                            session_data.answer_ratings[k])
                      ELSE IF Len(session_data.responses) > question_index
                      THEN IF i = 0
                           THEN RatingReply(question_index, 500, PyNone)
                           ELSE IF Truthy(session_data.responses[i].answer_rating)
                           THEN IF question_raises
                                THEN RatingReply(question_index, 500, PyNone)
                                ELSE RatingReply(question_index, 200,
                                         session_data.responses[i].answer_rating[1])
                           ELSE RatingReply(question_index, 404, PyNone)
                      ELSE RatingReply(question_index, 404, PyNone)
    /\ op' = "get_answer_rating"
    /\ UNCHANGED <<httpVars, uploads, real_sessions>>
    /\ UNCHANGED <<scorerVars, pureVars, analyzerVars, videoVars, inflightVars,
                 managerVars>>

\* GET /api/feedback/{session_id}
GetFeedback ==
    /\ services.started
    /\ \E session_id \in 1..(MaxSessions + 1), rand \in {RandLow, RandHigh},
          ai_fails \in BOOLEAN :
           feedback' =
               IF ~Known(session_id)
               THEN \* the 404 raised inside the try block is caught by its
                    \* "except Exception" and re-raised as 500
                    Some([session_id |-> session_id, status |-> 500, overall_score |-> None])
               ELSE LET rs == sessions[session_id].responses
                    IN  IF rs = <<>>
                        THEN Some([session_id |-> session_id, status |-> 200,
                                   overall_score |-> Some(R(rand))])
                        ELSE IF services.feedback_generator /\ ~ai_fails
                        THEN Some([session_id |-> session_id, status |-> 200,
                                   overall_score |->
                                       Some(calculate_confidence_score(rs).overall_score)])
                        ELSE Some([session_id |-> session_id, status |-> 200,
                                   overall_score |-> Some(R(rand))])
    /\ op' = "get_feedback"
    /\ UNCHANGED <<services, sessions>>
    /\ UNCHANGED <<scorerVars, pureVars, mediaVars>>

\* The rates and stabilities given to the composite indicators: multiples
\* of 100 / IndicatorSteps from one step below 0 to one step above 100.
IndicatorSteps == 2

IndicatorGrid == { Rat(100 * k, IndicatorSteps) : k \in (-1)..(IndicatorSteps + 1) }

\* RealVideoAnalyzer._calculate_confidence_score and _calculate_nervousness_score
CalculateIndicators ==
    /\ \E face_detection_rate \in IndicatorGrid, eye_contact_percentage \in IndicatorGrid,
          position_stability \in IndicatorGrid, size_consistency \in IndicatorGrid :
         /\ indicators_in' = Some([face_detection_rate |-> face_detection_rate,
                                   eye_contact_percentage |-> eye_contact_percentage,
                                   position_stability |-> position_stability,
                                   size_consistency |-> size_consistency])
         /\ indicators_out' =
                Some([confidence_score |->
                          video_confidence_score(face_detection_rate,
                                                 eye_contact_percentage,
                                                 position_stability),
                      nervousness_score |->
                          video_nervousness_score(position_stability, size_consistency)])
    /\ op' = "calculate_indicators"
    /\ UNCHANGED <<vad_in, vad_out, audio_in, audio_out, temp_files>>
    /\ UNCHANGED <<scorerVars, pureVars, httpVars, inflightVars, managerVars>>
    /\ UNCHANGED <<uploadVars, videoVars>>

\* ------------------------------- uploads in flight (src/backend/main.py)
\* Requests for the same session_id and question_index share the path
\* temp_audio_{session_id}_{question_index}.wav.  A handler gives up control
\* at each await: in aiofiles.open, in the read and write, and in the close
\* that ends the async with block; from there to its return it runs without
\* interruption.  temp_audio is the set
\* of requests whose bytes the file at the path holds, None when there is no
\* file; handle tells whether a request's open file is the one at the path.

\* async with aiofiles.open(temp_audio_path, 'wb'): creates or truncates
OpenUpload ==
    /\ \E r \in 1..MaxInflight :
         /\ requests[r].pc = "start"
         /\ temp_audio' = Some({})
         /\ requests' = [requests EXCEPT ![r].pc = "opened", ![r].handle = TRUE]
    /\ op' = "open_upload"
    /\ UNCHANGED <<scorerVars, pureVars, httpVars, uploadVars, analyzerVars, videoVars,
                   managerVars>>

\* the finally clause: os.remove(temp_audio_path) if the path exists; every
\* open file of the path is left without a name
upload_cleanup(reqs) == [r \in DOMAIN reqs |-> [reqs[r] EXCEPT !.handle = FALSE]]

\* content = await audio_file.read(); await f.write(content): a recording
\* is larger than the file's buffer and reaches the file.  Two writers of one file both start at offset 0: the later bytes replace
\* the earlier ones, wholly or up to their own length.  When the write
\* raises, the handler answers 500 and its finally clause removes the file.
WriteUpload ==
    /\ \E r \in 1..MaxInflight, save_raises \in BOOLEAN :
         /\ requests[r].pc = "opened"
         /\ IF save_raises
            THEN /\ temp_audio' = None
                 /\ requests' = [upload_cleanup(requests) EXCEPT ![r].pc = "failed"]
            ELSE /\ requests' = [requests EXCEPT ![r].pc = "saved"]
                 /\ IF requests[r].handle
                    THEN \E content \in {{r}, temp_audio[1] \cup {r}} :
                             temp_audio' = Some(content)
                    ELSE UNCHANGED temp_audio
    /\ op' = "write_upload"
    /\ UNCHANGED <<scorerVars, pureVars, httpVars, uploadVars, analyzerVars, videoVars,
                   managerVars>>

\* the close returns; then audio_analyzer.analyze_audio_file(temp_audio_path),
\* the reply and the finally clause; analysed is what the analyzer found at
\* the path
AnalyzeUpload ==
    /\ \E r \in 1..MaxInflight :
         /\ requests[r].pc = "saved"
         /\ requests' = [upload_cleanup(requests) EXCEPT
                             ![r].pc = "done", ![r].analysed = Some(temp_audio)]
         /\ temp_audio' = None
    /\ op' = "analyze_upload"
    /\ UNCHANGED <<scorerVars, pureVars, httpVars, uploadVars, analyzerVars, videoVars,
                   managerVars>>

\* ------------------------------------------- HTTP layer (src/backend/main.py)
\* src/backend/main.py is an application of its own: a process serves either
\* it or src/main.py, and its handlers run in the process that did not load
\* src/main.py.
RealKnown(session_id) == session_id \in 1..Len(real_sessions)

\* POST /api/interview/start
RealStartInterview ==
    /\ ~services.started
    /\ Len(real_sessions) < MaxSessions
    /\ real_sessions' = Append(real_sessions, [responses |-> <<>>])
    /\ op' = "real_start_interview"
    /\ UNCHANGED <<scorerVars, pureVars, httpVars, inflightVars, managerVars>>
    /\ UNCHANGED <<reply, uploads, analyzerVars, videoVars>>

\* POST /api/analyze/audio, storing the answer although saving the upload failed
RealAnalyzeAudio_stores_failed ==
    /\ ~services.started
    /\ uploads < MaxUploads
    /\ uploads' = uploads + 1
    /\ \E session_id \in 1..(MaxSessions + 1), question_index \in QuestionIndexes,
          a \in UploadedAudio, save_raises \in BOOLEAN :
         LET outcome == analyze_audio_file(a)
             analysis_result == outcome.value[1]
             response_data ==
                 [question_index |-> question_index,
                  transcript |-> analysis_result.transcript,
                  voice_metrics |-> upload_voice_metrics(analysis_result),
                  analysis_result |-> analysis_result,
                  emotion_analysis |-> None,
                  video_analysis |-> None]
         IN  /\ temp_files' = temp_files \cup outcome.temp
             /\ real_sessions' =
                    IF RealKnown(session_id)
                    THEN [real_sessions EXCEPT ![session_id].responses =
                              Append(@, response_data)]
                    ELSE real_sessions
             /\ reply' = UploadReply("backend", "analyze_audio",
                                     IF save_raises THEN 500 ELSE 200)
    /\ op' = "real_analyze_audio"
    /\ UNCHANGED <<scorerVars, pureVars, httpVars, inflightVars, managerVars>>
    /\ UNCHANGED <<vad_in, vad_out, audio_in, audio_out, indicators_in, indicators_out>>
    /\ UNCHANGED videoVars

\* POST /api/analyze/audio
RealAnalyzeAudio ==
    /\ ~services.started
    /\ uploads < MaxUploads
    /\ uploads' = uploads + 1
    /\ \E session_id \in 1..(MaxSessions + 1), question_index \in QuestionIndexes,
          a \in UploadedAudio, save_raises \in BOOLEAN :
         IF save_raises
         THEN \* writing the upload to the temporary file raises
              /\ reply' = UploadReply("backend", "analyze_audio", 500)
              /\ UNCHANGED <<real_sessions, temp_files>>
         ELSE LET outcome == analyze_audio_file(a)
                  analysis_result == outcome.value[1]
                  response_data ==
                      [question_index |-> question_index,
                       transcript |-> analysis_result.transcript,
                       voice_metrics |-> upload_voice_metrics(analysis_result),
                       analysis_result |-> analysis_result,
                       emotion_analysis |-> None,
                       video_analysis |-> None]
              IN  /\ temp_files' = temp_files \cup outcome.temp
                  /\ real_sessions' =
                         IF RealKnown(session_id)
                         THEN [real_sessions EXCEPT ![session_id].responses =
                                   Append(@, response_data)]
                         ELSE real_sessions
                  /\ reply' = UploadReply("backend", "analyze_audio", 200)
    /\ op' = "real_analyze_audio"
    /\ UNCHANGED <<scorerVars, pureVars, httpVars, inflightVars, managerVars>>
    /\ UNCHANGED <<vad_in, vad_out, audio_in, audio_out, indicators_in, indicators_out>>
    /\ UNCHANGED videoVars

\* POST /api/analyze/video
RealAnalyzeVideo ==
    /\ ~services.started
    /\ uploads < MaxUploads
    /\ uploads' = uploads + 1
    /\ \E session_id \in 1..(MaxSessions + 1), question_index \in QuestionIndexes,
          v \in UploadedVideos, save_raises \in BOOLEAN :
         LET \* the reply, with the request it answers
             Reply(status) ==
                 Some([app |-> "backend", handler |-> "analyze_video",
                       status |-> status, session_id |-> session_id,
                       question_index |-> question_index])
         IN
         IF save_raises
         THEN /\ reply' = Reply(500)
              /\ UNCHANGED real_sessions
         ELSE LET analysis_result == analyze_video_file(v)
                  emotion_analysis == upload_emotion_analysis(analysis_result)
              IN  IF RealKnown(session_id)
                     /\ Len(real_sessions[session_id].responses) > question_index
                  THEN LET i == ListIndex(Len(real_sessions[session_id].responses),
                                          question_index)
                       IN  IF i = 0
                           THEN \* IndexError
                                /\ reply' = Reply(500)
                                /\ UNCHANGED real_sessions
                           ELSE /\ real_sessions' =
                                       [real_sessions EXCEPT
                                           ![session_id].responses[i] =
                                               [@ EXCEPT
                                                   !.emotion_analysis =
                                                       Some(emotion_analysis),
                                                   !.video_analysis =
                                                       Some(analysis_result)]]
                                /\ reply' = Reply(200)
                  ELSE /\ reply' = Reply(200)
                       /\ UNCHANGED real_sessions
    /\ op' = "real_analyze_video"
    /\ UNCHANGED <<scorerVars, pureVars, httpVars, inflightVars, managerVars>>
    /\ UNCHANGED <<analyzerVars, videoVars>>

\* ------------------------------- SessionManager (utils/session_manager.py)
\* self.sessions gives each id its session data, None for an id not stored.
\* Times are whole hours; created_at is None when the key is missing or its
\* value does not parse (datetime.fromisoformat raises ValueError or TypeError).

\* timedelta(hours=2)
session_timeout == 2
\* The latest hour the clock reaches, and the most responses added to a session.
MaxClock == 3
MaxAdded == 2

\* the response_data handed to add_response_to_session
ResponseData == {"a", "b"}

\* the ids stored: session_id in self.sessions
Stored(store) == { k \in ManagerIds : store[k] # None }

\* self.sessions[session_id] = session_data
Put(store, session_id, session_data) == [store EXCEPT ![session_id] = Some(session_data)]

\* del self.sessions[session_id], for each id of a set
Del(store, ids) == [k \in ManagerIds |-> IF k \in ids THEN None ELSE store[k]]

create_session(store, session_id, session_data, now) ==
    [sessions |-> Put(store, session_id,
                      [session_data EXCEPT !.created_at = Some(now),
                                           !.last_updated = Some(now),
                                           !.status = "active"]),
     value |-> TRUE]

get_session(store, session_id, now) ==
    IF session_id \notin Stored(store) THEN [sessions |-> store, value |-> None]
    ELSE LET session_data == store[session_id][1]
         IN  IF session_data.created_at = None
             THEN \* invalid timestamp: the session is kept and re-dated
                  LET redated == [session_data EXCEPT !.created_at = Some(now)]
                  IN  [sessions |-> Put(store, session_id, redated),
                       value |-> Some(redated)]
             ELSE IF now - session_data.created_at[1] > session_timeout
             THEN [sessions |-> Del(store, {session_id}), value |-> None]
             ELSE [sessions |-> store, value |-> Some(session_data)]

update_session(store, session_id, session_data, now) ==
    IF session_id \notin Stored(store) THEN [sessions |-> store, value |-> FALSE]
    ELSE [sessions |-> Put(store, session_id,
                           [session_data EXCEPT !.last_updated = Some(now)]),
          value |-> TRUE]

list_sessions(store, now) ==
    LET expired_sessions ==
            { k \in Stored(store) :
                /\ store[k][1].created_at # None
                /\ now - store[k][1].created_at[1] > session_timeout }
        kept == Del(store, expired_sessions)
    IN  [sessions |-> kept, value |-> kept]

update_session_status(store, session_id, status, now) ==
    IF session_id \notin Stored(store) THEN [sessions |-> store, value |-> FALSE]
    ELSE [sessions |-> [store EXCEPT ![session_id][1].status = status,
                                     ![session_id][1].last_updated = Some(now)],
          value |-> TRUE]

add_response_to_session_uncounted(store, session_id, response_data, now) ==
    LET got == get_session(store, session_id, now)
    IN  IF got.value = None THEN [sessions |-> got.sessions, value |-> FALSE]
        ELSE LET session_data ==
                     [got.value[1] EXCEPT
                         !.current_question = Some(Len(got.value[1].responses)),
                         !.responses =
                             Append(@, [response_data |-> response_data,
                                        timestamp |-> now])]
             IN  update_session(got.sessions, session_id, session_data, now)

add_response_to_session(store, session_id, response_data, now) ==
    LET got == get_session(store, session_id, now)
    IN  IF got.value = None THEN [sessions |-> got.sessions, value |-> FALSE]
        ELSE LET appended ==
                     Append(got.value[1].responses,
                            [response_data |-> response_data, timestamp |-> now])
                 session_data ==
                     [got.value[1] EXCEPT !.responses = appended,
                                          !.current_question = Some(Len(appended))]
             IN  update_session(got.sessions, session_id, session_data, now)

cleanup_expired_sessions(store, now) ==
    LET expired_sessions ==
            { k \in Stored(store) :
                \/ store[k][1].created_at = None
                \/ now - store[k][1].created_at[1] > session_timeout }
    IN  [sessions |-> Del(store, expired_sessions),
         value |-> Cardinality(expired_sessions)]

\* a SessionManager call: the store and the record of the call it leaves
ManagerCall(call, session_id, outcome) ==
    /\ manager_sessions' = outcome.sessions
    /\ manager_out' = Some([call |-> call, session_id |-> session_id,
                            value |-> outcome.value])
    /\ op' = call
    /\ UNCHANGED <<scorerVars, pureVars, httpVars, uploadVars, analyzerVars, videoVars,
                   inflightVars>>

\* create_session for a fresh id, with an empty responses list; the caller
\* may or may not supply current_question
CreateSession ==
    /\ manager_log["s1"] = None
    /\ \E current_question \in {None, Some(0)} :
         ManagerCall("create_session", "s1",
                     create_session(manager_sessions, "s1",
                                    [created_at |-> None, last_updated |-> None,
                                     status |-> "new", responses |-> <<>>,
                                     current_question |-> current_question],
                                    clock))
    /\ manager_log' = Put(manager_log, "s1", [created_at |-> Some(clock), added |-> <<>>])
    /\ UNCHANGED clock

GetSession ==
    /\ \E session_id \in ManagerIds :
         ManagerCall("get_session", session_id,
                     get_session(manager_sessions, session_id, clock))
    /\ UNCHANGED <<clock, manager_log>>

\* update_session with the stored data, or with data that lacks created_at
UpdateSession ==
    /\ \E session_id \in ManagerIds, created_at \in {None, Some(clock)} :
         LET session_data ==
                 IF session_id \in Stored(manager_sessions)
                 THEN [manager_sessions[session_id][1] EXCEPT !.created_at = created_at]
                 ELSE [created_at |-> created_at, last_updated |-> None,
                       status |-> "active", responses |-> <<>>,
                       current_question |-> None]
         IN  ManagerCall("update_session", session_id,
                         update_session(manager_sessions, session_id, session_data, clock))
    /\ UNCHANGED <<clock, manager_log>>

UpdateSessionStatus ==
    /\ \E session_id \in ManagerIds, status \in {"active", "completed"} :
         ManagerCall("update_session_status", session_id,
                     update_session_status(manager_sessions, session_id, status, clock))
    /\ UNCHANGED <<clock, manager_log>>

AddResponseToSession ==
    /\ \E session_id \in ManagerIds, response_data \in ResponseData :
         LET outcome == add_response_to_session(manager_sessions, session_id,
                                                response_data, clock)
         IN  /\ session_id \in Stored(manager_sessions) =>
                    Len(manager_sessions[session_id][1].responses) < MaxAdded
             /\ ManagerCall("add_response_to_session", session_id, outcome)
             /\ manager_log' =
                    IF outcome.value
                    THEN [manager_log EXCEPT ![session_id][1].added =
                              Append(@, [response_data |-> response_data,
                                         timestamp |-> clock])]
                    ELSE manager_log
    /\ UNCHANGED clock

ListSessions ==
    /\ ManagerCall("list_sessions", "", list_sessions(manager_sessions, clock))
    /\ UNCHANGED <<clock, manager_log>>

CleanupExpiredSessions ==
    /\ ManagerCall("cleanup_expired_sessions", "",
                   cleanup_expired_sessions(manager_sessions, clock))
    /\ UNCHANGED <<clock, manager_log>>

\* an hour passes
AdvanceClock ==
    /\ clock < MaxClock
    /\ clock' = clock + 1
    /\ op' = "advance_clock"
    /\ UNCHANGED <<manager_sessions, manager_out, manager_log>>
    /\ UNCHANGED <<scorerVars, pureVars, httpVars, uploadVars, analyzerVars, videoVars,
                   inflightVars>>

\* ------------------------------------------------------ specifications
Next == AddResponse \/ CalculateScore

Spec == Init /\ [][Next]_vars

NextReal == AddResponse \/ CalculateRealConfidenceScore

SpecReal == Init /\ [][NextReal]_vars

SpecInterpret == Init /\ [][InterpretScore]_vars

SpecFiller == Init /\ [][FillerWordScore]_vars

NextStability == AnalyzeSpeechPatterns \/ VoiceAnalyzerAnalyze

SpecStability == Init /\ [][NextStability]_vars

NextHttp == Startup \/ StartInterview \/ AnalyzeAudio \/ AnalyzeVideo \/ GetFeedback

SpecHttp == Init /\ [][NextHttp]_vars

SpecVad == Init /\ [][DetectVoiceActivity]_vars

SpecAudio == Init /\ [][AnalyzeAudioFile]_vars

NextVideo == OpenVideo \/ ReadFrame \/ ReadRaises \/ FinishVideo

SpecVideo == Init /\ [][NextVideo]_vars

SpecIndicators == Init /\ [][CalculateIndicators]_vars

NextBackend == RealStartInterview \/ RealAnalyzeAudio \/ RealAnalyzeVideo

SpecBackend == Init /\ [][NextBackend]_vars

\* the upload handlers of both applications, each with its own session store
NextUpload ==
    \/ Startup \/ StartInterview \/ AnalyzeAudio \/ AnalyzeVideo
    \/ RealStartInterview \/ RealAnalyzeAudio \/ RealAnalyzeVideo

SpecUpload == Init /\ [][NextUpload]_vars

SpecInflight == Init /\ [][OpenUpload \/ WriteUpload \/ AnalyzeUpload]_vars

\* every SessionManager call
SpecManager ==
    Init /\ [][CreateSession \/ UpdateSession \/ GetSession \/ UpdateSessionStatus
               \/ AddResponseToSession \/ ListSessions \/ CleanupExpiredSessions
               \/ AdvanceClock]_vars

\* a session and the calls that add responses to it, set its status and read it
SpecResponses ==
    Init /\ [][CreateSession \/ GetSession \/ UpdateSessionStatus
               \/ AddResponseToSession \/ AdvanceClock]_vars

\* the answer ratings of src/main.py: stored by analyze_audio, read back by
\* get_answer_rating
SpecRatings ==
    Init /\ [][Startup \/ StartInterview \/ AnalyzeAudio \/ GetAnswerRating]_vars

\* ----------------------------------------------------------------- claims
InRange(x) == RLe(R(0), x) /\ RLe(x, R(100))

\* The per-answer scores of the answers for which `supplied` holds, in order.
ScoresOfSupplied(rs, supplied(_), scoreOf(_)) ==
    LET sel == SelectSeq(rs, supplied)
    IN  [i \in 1..Len(sel) |-> scoreOf(sel[i])]

\* C1: each component's session score is the mean over only the answers that
\* supplied that modality; an answer without voice_metrics, emotion_analysis or
\* transcript is left out of that component's mean instead of counting as a
\* default value.
C1_MeanOverSuppliedOnly ==
    (result # None /\ scored[1] # <<>>) =>
        LET rs == scored[1]
            c == result[1].component_scores
            hasVoice(r) == Truthy(r.voice_metrics)
            hasEmotion(r) == Truthy(r.emotion_analysis)
            hasTranscript(r) == Truthy(r.transcript)
            voiceOf(r) == calculate_voice_stability_score(r.voice_metrics)
            eyeOf(r) == calculate_eye_contact_score(r.emotion_analysis)
            emotionOf(r) == calculate_emotion_consistency_score(r.emotion_analysis)
            fillerOf(r) == calculate_filler_word_score(r.transcript)
            Agrees(score, supplied) == supplied # <<>> => score = RMean(supplied)
        IN  /\ Agrees(c.voice_stability.score, ScoresOfSupplied(rs, hasVoice, voiceOf))
            /\ Agrees(c.eye_contact.score, ScoresOfSupplied(rs, hasEmotion, eyeOf))
            /\ Agrees(c.emotion_consistency.score,
                      ScoresOfSupplied(rs, hasEmotion, emotionOf))
            /\ Agrees(c.filler_word_frequency.score,
                      ScoresOfSupplied(rs, hasTranscript, fillerOf))

\* The per-answer component scores of the spec's scenario C.
ScenarioC(rs) ==
    /\ voice_scores(rs) = <<R(80), R(60)>>
    /\ eye_contact_scores(rs) = <<R(70), R(50)>>
    /\ emotion_scores(rs) = <<R(90), R(70)>>
    /\ filler_word_scores(rs) = <<R(100), R(80)>>

\* C2: for a non-empty answer list the overall score is
\* 0.40*mean(voice) + 0.25*mean(eye contact) + 0.20*mean(emotion) + 0.15*mean(filler),
\* every weighted_contribution is score * weight, the overall score is the sum of
\* the four contributions, and scenario C scores 72.5, level "Good".
C2_WeightedOverall ==
    (result # None /\ scored[1] # <<>>) =>
        LET rs == scored[1]
            r == result[1]
            c == r.component_scores
        IN  /\ c.voice_stability.score = RMean(voice_scores(rs))
            /\ c.eye_contact.score = RMean(eye_contact_scores(rs))
            /\ c.emotion_consistency.score = RMean(emotion_scores(rs))
            /\ c.filler_word_frequency.score = RMean(filler_word_scores(rs))
            /\ r.overall_score =
                   RAdd(RAdd(RAdd(RMul(Rat(40, 100), RMean(voice_scores(rs))),
                                  RMul(Rat(25, 100), RMean(eye_contact_scores(rs)))),
                             RMul(Rat(20, 100), RMean(emotion_scores(rs)))),
                        RMul(Rat(15, 100), RMean(filler_word_scores(rs))))
            /\ \A k \in DOMAIN c :
                   c[k].weighted_contribution = RMul(c[k].score, c[k].weight)
            /\ r.overall_score =
                   RSum(<<c.voice_stability.weighted_contribution,
                          c.eye_contact.weighted_contribution,
                          c.emotion_consistency.weighted_contribution,
                          c.filler_word_frequency.weighted_contribution>>)
            /\ ScenarioC(rs) =>
                   /\ r.overall_score = Rat(145, 2)
                   /\ r.score_interpretation.level = "Good"

C2_Witness == result # None /\ scored[1] # <<>> /\ ScenarioC(scored[1])

\* C3: whatever the metric values (missing, negative, above 100), every
\* per-answer component score, every session component score and the overall
\* score lie in [0,100].
C3_ScoresInRange ==
    (result # None) =>
        LET rs == scored[1]
            r == result[1]
        IN  /\ \A i \in 1..Len(rs) :
                   /\ InRange(voice_scores(rs)[i])
                   /\ InRange(eye_contact_scores(rs)[i])
                   /\ InRange(emotion_scores(rs)[i])
                   /\ InRange(filler_word_scores(rs)[i])
            /\ \A k \in DOMAIN r.component_scores : InRange(r.component_scores[k].score)
            /\ InRange(r.overall_score)

\* An answer whose raw voice, eye-contact and emotion values all leave [0,100].
OutOfRange(r) ==
    /\ Truthy(r.voice_metrics)
    /\ ~InRange(calculate_voice_stability_score_unclamped(r.voice_metrics))
    /\ Truthy(r.emotion_analysis)
    /\ ~InRange(R(MetricOf(r.emotion_analysis, "eye_contact_percentage")))

C3_Witness ==
    /\ result # None
    /\ \E i \in 1..Len(scored[1]) : OutOfRange(scored[1][i])
    /\ \E i \in 1..Len(scored[1]) :
           Truthy(scored[1][i].transcript)
           /\ Get(scored[1][i].transcript[1].word_count, 0) = 0

\* C5: scoring an empty answer list returns the all-zero result with level
\* "No Data" and response_count 0, and the weights it reports are the scorer's
\* configured weights.
C5_EmptyResult ==
    (result # None /\ scored[1] = <<>>) =>
        LET r == result[1]
            c == r.component_scores
        IN  /\ r.overall_score = R(0)
            /\ DOMAIN c = {"voice_stability", "eye_contact", "emotion_consistency",
                           "filler_word_frequency"}
            /\ \A k \in DOMAIN c :
                   /\ c[k].score = R(0)
                   /\ c[k].weighted_contribution = R(0)
                   /\ c[k].weight = weights[k]
            /\ r.response_count = 0
            /\ r.score_interpretation.level = "No Data"

C5_Witness == result # None /\ scored[1] = <<>> /\ Len(responses) > 0

\* C6: calculate_score is read-only and idempotent: a call changes neither the
\* answer list nor the weights, a call on the list the previous call was given
\* returns the previous result, and the result is decided by the list and the
\* weights alone, whatever was scored before.
C6_ReadOnlyIdempotent ==
    [][ (op' = "calculate_score") =>
            /\ responses' = responses
            /\ weights' = weights
            /\ scored' = Some(responses)
            /\ (scored = Some(responses) => result' = result)
            /\ result'[1].response_count = Len(responses)
            /\ result' = Some(calculate_score(InitWeights, responses)) ]_vars

C6_Witness == repeated /\ op = "calculate_score" /\ Len(responses) = MaxResponses

\* C4: the interpretation level is decided by the score alone, by the bands
\* >= 85 Excellent, [70,85) Good, [55,70) Average, [40,55) Below Average,
\* < 40 Poor, and the score_range label is the one of the same band.
C4_InterpretationBands ==
    (interpretation # None) =>
        LET sc == score_in[1]
            i == interpretation[1]
            Is(level, range) == i.level = level /\ i.score_range = range
        IN  /\ RGe(sc, R(85)) => Is("Excellent", "85-100")
            /\ (RGe(sc, R(70)) /\ RLt(sc, R(85))) => Is("Good", "70-84")
            /\ (RGe(sc, R(55)) /\ RLt(sc, R(70))) => Is("Average", "55-69")
            /\ (RGe(sc, R(40)) /\ RLt(sc, R(55))) => Is("Below Average", "40-54")
            /\ RLt(sc, R(40)) => Is("Poor", "0-39")

C4_Witness ==
    /\ op = "interpret_score"
    /\ score_in = Some(R(70))
    /\ interpretation[1].level = "Good"

\* C8: the filler score is max(0, 100 - 5 * (filler_count / total_words * 100))
\* when total_words > 0 and 100 when there is no transcript or no words: 8
\* fillers in 100 words score 60, a filler rate of 20% or more scores 0, and
\* the score is in [0,100].
C8_FillerScore ==
    (filler_out # None) =>
        LET t == transcript_in[1]
            out == filler_out[1]
            n == IF t = None THEN 0 ELSE Len(Get(t[1].filler_words, <<>>))
            w == IF t = None THEN 0 ELSE Get(t[1].word_count, 0)
        IN  /\ (t = None \/ w = 0) => out = R(100)
            /\ (t # None /\ w > 0) =>
                   out = (IF 500 * n >= 100 * w THEN R(0) ELSE Rat(100 * w - 500 * n, w))
            /\ (n = 8 /\ w = 100) => out = R(60)
            /\ (w > 0 /\ 5 * n >= w) => out = R(0)
            /\ InRange(out)

C8_Witness ==
    /\ op = "calculate_filler_word_score"
    /\ transcript_in = Some(Transcript(8, 100))
    /\ filler_out = Some(R(60))

\* The filler/speech score the claim gives one transcript: 100 without words.
C9_ExpectedSpeechScore(transcript) ==
    LET word_count == Get(transcript[1].word_count, 0)
        filler_count == Get(transcript[1].filler_word_count, 0)
    IN  IF word_count = 0 THEN R(100)
        ELSE RMax(R(0), RSub(R(100), Rat(500 * filler_count, word_count)))

\* C9: in calculate_real_confidence_score an answer whose transcript has zero
\* words contributes a speech score of 100 to the session mean.
C9_ZeroWordsScore100 ==
    (real_result # None /\ scored[1] # <<>>) =>
        LET sel == SelectSeq(scored[1], LAMBDA r : Truthy(r.transcript))
            expected == [i \in 1..Len(sel) |-> C9_ExpectedSpeechScore(sel[i].transcript)]
        IN  sel # <<>> =>
                real_result[1].component_scores.speech_quality.score = RMean(expected)

\* C10: every analyzer's stability_score is pitch_stability * 0.7 +
\* energy_stability * 0.3, each stability being 100 - min(100, std/mean*100),
\* or 0 when the mean is 0, and the result is in [0,100].
C10_StabilityWeights ==
    (speech_out # None) =>
        LET out == speech_out[1]
            Stab(mean, std) ==
                IF mean = R(0) THEN R(0)
                ELSE RSub(R(100), RMin(R(100), RMul(RDiv(std, mean), R(100))))
            pitch_stability == Stab(out.pitch_mean, out.pitch_std)
            energy_stability == Stab(out.energy_mean, out.energy_std)
        IN  /\ out.stability_score =
                   RAdd(RMul(pitch_stability, Rat(7, 10)), RMul(energy_stability, Rat(3, 10)))
            /\ InRange(out.stability_score)

\* C7: two get_feedback requests for the same session with no request in
\* between return the same overall_score.
C7_FeedbackRepeatable ==
    [][ (/\ op = "get_feedback"
         /\ op' = "get_feedback"
         /\ feedback[1].status = 200
         /\ feedback'[1].status = 200
         /\ feedback'[1].session_id = feedback[1].session_id)
        => feedback'[1].overall_score = feedback[1].overall_score ]_vars

\* C11: an answer whose audio has insufficient speech (speech_percentage < 1)
\* has every prosody statistic zero in the analyzer's speech_metrics, and
\* every prosody-derived value the upload handler stores in its
\* voice_metrics (stability_score, pitch_stability, energy_stability) zero.
C11_InsufficientSpeechZero ==
    \A s \in 1..Len(real_sessions) :
        \A i \in 1..Len(real_sessions[s].responses) :
            LET r == real_sessions[s].responses[i]
                speech_metrics == r.analysis_result.speech_metrics
            IN  RLt(r.analysis_result.voice_activity.speech_percentage, R(1)) =>
                    /\ speech_metrics.pitch_mean = R(0)
                    /\ speech_metrics.pitch_std = R(0)
                    /\ speech_metrics.energy_mean = R(0)
                    /\ speech_metrics.energy_std = R(0)
                    /\ speech_metrics.stability_score = R(0)
                    /\ r.voice_metrics.stability_score = R(0)
                    /\ r.voice_metrics.pitch_analysis.pitch_stability = R(0)
                    /\ r.voice_metrics.energy_analysis.energy_stability = R(0)

\* C12: for every audio, empty audio and audio that is not a whole number
\* of 30 ms frames included, and for the failure result, the voice activity
\* result has 0 <= speech_frames <= total_frames and speech_percentage +
\* silence_percentage = 100; audio is zero-padded to ceil(len / frame_size)
\* frames; with total_frames = 0 the result is speech_frames 0,
\* speech_percentage 0, silence_percentage 100.
C12_VoiceActivityShares ==
    (vad_out # None) =>
        LET audio == vad_in[1]
            out == vad_out[1]
            ceil == (audio.samples + frame_size - 1) \div frame_size
        IN  /\ 0 <= out.speech_frames
            /\ out.speech_frames <= out.total_frames
            /\ RAdd(out.speech_percentage, out.silence_percentage) = R(100)
            /\ ~audio.raises => out.total_frames = ceil
            /\ (out.total_frames = 0) =>
                   /\ out.speech_frames = 0
                   /\ out.speech_percentage = R(0)
                   /\ out.silence_percentage = R(100)

\* a padded audio of more than one frame with speech in some frames only
C12_Witness ==
    /\ vad_out # None
    /\ vad_in[1].samples % frame_size # 0
    /\ vad_out[1].speech_frames > 0
    /\ vad_out[1].speech_frames < vad_out[1].total_frames
    /\ vad_out[1].total_frames = (vad_in[1].samples \div frame_size) + 1

\* C13: for a 10-frame video with a face in frames 1, 3, 5, 7, 9 and two
\* eyes in frames 3 and 7, analyze_video_file reports face_detection_rate
\* 50 and eye_contact_percentage 20.
C13_ScenarioARates ==
    (pc = "done" /\ video # None /\ video[1] \in {ScenarioA(0), ScenarioA(1)}) =>
        /\ video_out[1].face_detection_rate = R(50)
        /\ video_out[1].eye_contact_percentage = R(20)

\* C14: at every point of the frame loop and in the result,
\* frames_with_eyes <= frames_with_face <= frames_analyzed <= frames read,
\* and as many face positions and face sizes are collected as there are
\* frames with a face; the result's face_detection_rate is frames_with_face
\* / frames_analyzed * 100 and its eye_contact_percentage frames_with_eyes /
\* frames_analyzed * 100 (0 when no frame was analysed), so
\* 0 <= eye_contact_percentage <= face_detection_rate <= 100.
C14_FrameLoopCounts ==
    /\ frames_with_eyes <= frames_with_face
    /\ frames_with_face <= frames_analyzed
    /\ frames_analyzed <= frame_count
    /\ Len(face_positions) = frames_with_face
    /\ Len(face_sizes) = frames_with_face
    /\ (video_out # None) =>
           LET out == video_out[1]
               Rate(count) ==
                   IF out.frames_analyzed = 0 THEN R(0)
                   ELSE Rat(100 * count, out.frames_analyzed)
           IN  /\ out.frames_with_eyes <= out.frames_with_face
               /\ out.frames_with_face <= out.frames_analyzed
               /\ out.frames_analyzed <= frame_count
               /\ (cap = "released") =>
                      /\ out.frames_analyzed = frames_analyzed
                      /\ out.frames_with_face = frames_with_face
                      /\ out.frames_with_eyes = frames_with_eyes
               /\ out.face_detection_rate = Rate(out.frames_with_face)
               /\ out.eye_contact_percentage = Rate(out.frames_with_eyes)
               /\ RLe(R(0), out.eye_contact_percentage)
               /\ RLe(out.eye_contact_percentage, out.face_detection_rate)
               /\ RLe(out.face_detection_rate, R(100))

\* a finished analysis with skipped frames, a frame without a face, a face
\* without eye contact or a face with eye contact
C14_Witness ==
    /\ pc = "done"
    /\ cap = "released"
    /\ frames_analyzed = 2
    /\ frames_analyzed < frame_count
    /\ frames_with_face = 2
    /\ frames_with_eyes = 1

\* C15: the visual confidence indicator is face_detection_rate * 0.3 +
\* eye_contact_rate * 0.5 + position_stability * 0.2 and the nervousness
\* indicator (100 - position_stability) * 0.6 + (100 - size_consistency) *
\* 0.4, each clamped to [0,100]; for inputs in [0,100] both lie in [0,100],
\* confidence is 0 exactly when all three inputs are 0, and nervousness is 0
\* exactly when position_stability and size_consistency are both 100.
C15_CompositeIndicators ==
    (indicators_out # None) =>
        LET given == indicators_in[1]
            out == indicators_out[1]
            Clamp(x) == IF RLt(x, R(0)) THEN R(0) ELSE IF RLt(R(100), x) THEN R(100) ELSE x
            confidence ==
                RAdd(RAdd(RMul(given.face_detection_rate, Rat(3, 10)),
                          RMul(given.eye_contact_percentage, Rat(1, 2))),
                     RMul(given.position_stability, Rat(1, 5)))
            nervousness ==
                RAdd(RMul(RSub(R(100), given.position_stability), Rat(3, 5)),
                     RMul(RSub(R(100), given.size_consistency), Rat(2, 5)))
        IN  /\ out.confidence_score = Clamp(confidence)
            /\ out.nervousness_score = Clamp(nervousness)
            /\ (/\ InRange(given.face_detection_rate)
                /\ InRange(given.eye_contact_percentage)
                /\ InRange(given.position_stability)
                /\ InRange(given.size_consistency)) =>
                   /\ InRange(out.confidence_score)
                   /\ InRange(out.nervousness_score)
                   /\ (out.confidence_score = R(0)) <=>
                          (/\ given.face_detection_rate = R(0)
                           /\ given.eye_contact_percentage = R(0)
                           /\ given.position_stability = R(0))
                   /\ (out.nervousness_score = R(0)) <=>
                          (/\ given.position_stability = R(100)
                           /\ given.size_consistency = R(100))

\* a steady, always visible face without eye contact: no nervousness, some
\* confidence
C15_Witness ==
    /\ indicators_out # None
    /\ indicators_in[1].face_detection_rate = R(100)
    /\ indicators_in[1].eye_contact_percentage = R(0)
    /\ indicators_in[1].position_stability = R(100)
    /\ indicators_in[1].size_consistency = R(100)
    /\ indicators_out[1].nervousness_score = R(0)
    /\ indicators_out[1].confidence_score = R(50)

\* C16: analyze_video_file on a video that cannot be opened, or that opens
\* but yields no analysed frame, returns the all-zero result: every count,
\* both rates, both stability scores and both derived indicators are 0 and
\* has_face is false, the same value in both cases.
C16_ZeroResultWithoutFrames ==
    (pc = "done" /\ (~video[1].opens \/ (cap = "released" /\ frames_analyzed = 0))) =>
        LET out == video_out[1]
        IN  /\ out.total_frames = 0
            /\ out.frames_analyzed = 0
            /\ out.frames_with_face = 0
            /\ out.frames_with_eyes = 0
            /\ out.face_detection_rate = R(0)
            /\ out.eye_contact_percentage = R(0)
            /\ out.position_stability = R(0)
            /\ out.size_consistency = R(0)
            /\ out.metrics.confidence_score = R(0)
            /\ out.metrics.nervousness_score = R(0)
            /\ out.has_face = FALSE
            /\ out = analyze_video_file(Video(FALSE, <<>>, R(0), 0))

\* C17: analyze_audio_file never propagates an exception.  When the format
\* conversion, the decoding or an analysis stage fails, or the decoded audio
\* is empty, it returns a well-formed result whose failed part is all-zero;
\* when loading fails the whole result is the empty analysis: zero duration,
\* zero words, speech_percentage 0, silence_percentage 100, zero prosody,
\* has_speech false.
C17_AudioAnalysisNeverRaises ==
    (audio_out # None) =>
        LET a == audio_in[1]
            out == audio_out[1]
        IN  /\ ~out.raised
            /\ out.value # None
            /\ LET r == out.value[1]
                   zero_prosody ==
                       /\ r.speech_metrics.pitch_mean = R(0)
                       /\ r.speech_metrics.pitch_std = R(0)
                       /\ r.speech_metrics.energy_mean = R(0)
                       /\ r.speech_metrics.energy_std = R(0)
                       /\ r.speech_metrics.stability_score = R(0)
                   zero_words ==
                       /\ r.transcript.transcript = <<>>
                       /\ r.transcript.word_count = 0
                       /\ r.transcript.filler_word_count = 0
                       /\ r.transcript.speaking_rate = R(0)
                   zero_activity ==
                       /\ r.voice_activity.total_frames = 0
                       /\ r.voice_activity.speech_frames = 0
                       /\ r.voice_activity.speech_percentage = R(0)
                       /\ r.voice_activity.silence_percentage = R(100)
                   zero_quality ==
                       /\ r.audio_quality.snr = R(0)
                       /\ r.audio_quality.quality_score = R(0)
               IN  /\ DOMAIN r = {"duration", "transcript", "voice_activity",
                                  "speech_metrics", "audio_quality", "has_speech"}
                   /\ (a.load_raises \/ a.samples = 0 \/ a.prepare_raises) =>
                          /\ r.duration = R(0)
                          /\ zero_words
                          /\ zero_activity
                          /\ zero_prosody
                          /\ zero_quality
                          /\ r.has_speech = FALSE
                   /\ (a.recognition # "ok") => zero_words
                   /\ a.vad_raises => (zero_activity /\ zero_prosody /\ ~r.has_speech)
                   /\ a.patterns_raises => zero_prosody
                   /\ a.quality_raises => zero_quality

\* a recording in another format whose conversion succeeds and whose
\* decoding then raises
C17_Witness ==
    /\ audio_out # None
    /\ ~audio_in[1].is_wav
    /\ audio_in[1].conversion = "pydub"
    /\ audio_in[1].load_raises
    /\ audio_out[1].value = Some(audio_empty_analysis)

\* C18: every temporary resource is released on every exit path: when
\* analyze_audio_file has returned, no temporary WAV made by
\* _convert_audio_format or _transcribe_audio exists, and when
\* analyze_video_file has returned, its video capture has been released.
C18_TemporaryResourcesReleased ==
    /\ temp_files = {}
    /\ (pc = "done") => (cap # "open")

\* C19: a session's responses list is append-only and its entries are
\* immutable: no request shortens or reorders the list or changes a field of
\* a response already stored.
C19_ResponsesAppendOnly ==
    [][ /\ \A s \in 1..Len(sessions) :
            /\ Len(sessions'[s].responses) >= Len(sessions[s].responses)
            /\ \A i \in 1..Len(sessions[s].responses) :
                   sessions'[s].responses[i] = sessions[s].responses[i]
        /\ \A s \in 1..Len(real_sessions) :
            /\ Len(real_sessions'[s].responses) >= Len(real_sessions[s].responses)
            /\ \A i \in 1..Len(real_sessions[s].responses) :
                   real_sessions'[s].responses[i] = real_sessions[s].responses[i] ]_vars

\* C20: an analyze_audio or analyze_video request that ends in an error
\* response leaves every session, with its responses and answer_ratings,
\* and the services exactly as they were before the request.
C20_FailedUploadIsLocal ==
    [][ (/\ op' \in {"analyze_audio", "analyze_video",
                     "real_analyze_audio", "real_analyze_video"}
         /\ reply'[1].status = 500)
        => /\ sessions' = sessions
           /\ real_sessions' = real_sessions
           /\ services' = services ]_vars

\* an upload failed for a session that already holds a rated answer
C20_Witness ==
    /\ op \in {"analyze_audio", "analyze_video"}
    /\ Truthy(reply) /\ reply[1].status = 500
    /\ Len(sessions) > 0
    /\ Len(sessions[1].responses) > 0
    /\ Len(sessions[1].answer_ratings) > 0

\* C21: the status raised inside get_feedback is the status the client
\* receives: a request for an unknown session id is answered with 404.
C21_UnknownSessionIs404 ==
    (op = "get_feedback" /\ ~Known(feedback[1].session_id)) =>
        feedback[1].status = 404

\* C22: get_answer_rating(session, q) that returns a rating returns the
\* rating generated for the answer to question q, never another question's.
C22_RatingOfTheQuestion ==
    (/\ op = "get_answer_rating"
     /\ reply[1].status = 200
     /\ reply[1].rating # PyNone)
    => reply[1].rating.question_index = reply[1].question_index

\* C23: a stored response that analyze_video(session, q) changes is the
\* response whose question_index is q.  The handler changes the entry at
\* list index q, which is position q + 1 for q >= 0 and position
\* len + q + 1 for q < 0.
C23_VideoAttachedToItsQuestion ==
    [][ op' \in {"analyze_video", "real_analyze_video"} =>
          /\ \A s \in 1..Len(sessions) :
               \A i \in 1..Len(sessions[s].responses) :
                   sessions'[s].responses[i] # sessions[s].responses[i] =>
                       sessions[s].responses[i].question_index
                           \in {i - 1, i - 1 - Len(sessions[s].responses)}
          /\ \A s \in 1..Len(real_sessions) :
               \A i \in 1..Len(real_sessions[s].responses) :
                   real_sessions'[s].responses[i] # real_sessions[s].responses[i] =>
                       real_sessions[s].responses[i].question_index
                           \in {i - 1, i - 1 - Len(real_sessions[s].responses)} ]_vars

\* C24: a video upload for question q of an existing session that is
\* answered with success leaves the session holding a response for q that
\* carries both voice_metrics and emotion_analysis, whether or not the audio
\* upload for q came first.
C24_SuccessfulVideoIsKept ==
    [][ (/\ op' = "real_analyze_video"
         /\ reply'[1].status = 200
         /\ RealKnown(reply'[1].session_id)
         /\ reply'[1].question_index >= 0)
        => \E i \in 1..Len(real_sessions'[reply'[1].session_id].responses) :
               LET r == real_sessions'[reply'[1].session_id].responses[i]
               IN  /\ r.question_index = reply'[1].question_index
                   /\ r.voice_metrics # None
                   /\ Truthy(r.emotion_analysis) ]_vars

\* C25: each of the upload requests in flight for the same session_id and
\* question_index is analysed on exactly its own uploaded bytes.
C25_AnalysedOnOwnBytes ==
    \A r \in 1..MaxInflight :
        requests[r].pc = "done" => requests[r].analysed = Some(Some({r}))

\* C26: the weights calculate_confidence_score (src/main.py) reports sum to 1
\* and the overall_score it reports is the sum over its reported components
\* of score * weight, rounded to one decimal as the function rounds.
C26_OverallIsWeightedSum ==
    \A s \in 1..Len(sessions) :
        sessions[s].responses # <<>> =>
            LET out == calculate_confidence_score(sessions[s].responses)
                voice == out.component_scores.voice_stability
                emotion == out.component_scores.emotional_confidence
            IN  /\ RAdd(voice.weight, emotion.weight) = R(1)
                /\ out.overall_score =
                       Round1(RAdd(RMul(voice.score, voice.weight),
                                   RMul(emotion.score, emotion.weight)))

\* C27: every score s in [0, 100] lies within the closed numeric range named
\* by the score_range that _interpret_score returns for it.
C27_ScoreWithinNamedRange ==
    (/\ op = "interpret_score"
     /\ RLe(R(0), score_in[1])
     /\ RLe(score_in[1], R(100)))
    => LET range == interpretation[1].score_range
           low == CASE range = "85-100" -> 85 [] range = "70-84" -> 70
                    [] range = "55-69" -> 55 [] range = "40-54" -> 40
                    [] range = "0-39" -> 0
           high == CASE range = "85-100" -> 100 [] range = "70-84" -> 84
                     [] range = "55-69" -> 69 [] range = "40-54" -> 54
                     [] range = "0-39" -> 39
       IN  RLe(R(low), score_in[1]) /\ RLe(score_in[1], R(high))

C29_ExpiryChecksAgree ==
    LET returned == { k \in Stored(manager_sessions) :
                        get_session(manager_sessions, k, clock).value # None }
    IN  /\ Stored(cleanup_expired_sessions(manager_sessions, clock).sessions) = returned
        /\ Stored(list_sessions(manager_sessions, clock).value) = returned

====
